---- MODULE Spec2Model ----
(***************************************************************************)
(* UTXO selection and transaction assembly of the pktd wallet:             *)
(* txToOutputs, findEligibleOutputs and their helpers (pktwallet/wallet    *)
(* createtx).  One attempt is a walk of pc through the body of             *)
(* txToOutputs; the scan callback of findEligibleOutputs is one step per   *)
(* stored output, and the range loops over the haveAmounts map take their  *)
(* groups in any order, as Go's map iteration does.                        *)
(***************************************************************************)
EXTENDS Integers, Sequences, FiniteSets, TLC

\* ------------------------------------------------------------- bounds

\* Outputs in a small wallet.
NumOutputs == 3
\* Attempts (calls of txToOutputs) in one behaviour.
MaxAttempts == 2
\* Outputs in the large single-script-type wallet of the sweep scenario.
NumSweepOutputs == 600
\* Value of each output of the sweep scenario.
SweepValue == 1000
\* Entries the deletion queue takes where it is scaled down to be filled.
QueueCapScaled == 2
\* Outputs to delete that the scan meets after the queue is full.
NumQueueOverflow == 1

\* Calls of one input source.
MaxCalls == 3
\* The highest target a call asks for.
MaxTarget == 5
\* Outputs put into one tree.
MaxPuts == 4
\* Address scripts the blocks pay and spend.
NumScripts == 2
\* Outputs of one block, and the highest value of one.
MaxOuts == 2
MaxValue == 1
\* Outputs one block spends.
MaxSpent == 1
\* Blocks on the chain above the start.
MaxBlocks == 2
\* The highest epoch GetBalances is asked for.
MaxEpoch == 1

\* ------------------------------------------------- program constants

MaxInputsPerTx == 1460
MaxInputsPerTxLegacy == 499
\* Cap on the deletion queue of one call.
MaxOutputsToDelete == 1000000
\* bs.Height+1440: the look-ahead handed to txrules.IsBurned.
BurnLookAhead == 1440
\* An epoch of the address balance index: one week of blocks, 60 * 24 * 7.
blocksPerEpoch == 10080
\* chainParams.CoinbaseMaturity.
CoinbaseMaturity == 100
\* Age past which txrules.IsBurned reports a coinbase output as burned.
BurnAge == 10000

None == "none"

SendModeUnsigned == "unsigned"
SendModeSigned == "signed"
SendModeBcasted == "bcasted"
SendModes == {SendModeUnsigned, SendModeSigned, SendModeBcasted}

\* ------------------------------------------------------ pure helpers

Range(s) == {s[i] : i \in DOMAIN s}

RECURSIVE SumRange(_, _, _, _)
\* Sum of f[s[i]] for lo <= i <= hi, by halves.
SumRange(f, s, lo, hi) ==
    IF lo > hi THEN 0
    ELSE IF lo = hi THEN f[s[lo]]
    ELSE LET mid == (lo + hi) \div 2
         IN  SumRange(f, s, lo, mid) + SumRange(f, s, mid + 1, hi)

\* Sum of f[x] over the members x of a sequence.
SumSeq(f, s) == SumRange(f, s, 1, Len(s))

RECURSIVE SumSet(_, _)
SumSet(f, S) ==
    IF S = {} THEN 0
    ELSE LET x == CHOOSE y \in S : TRUE IN f[x] + SumSet(f, S \ {x})

\* The k-th outpoint of a wallet: two outputs per transaction hash.
OutPointOf(k) == [hash |-> (k + 1) \div 2, index |-> (k + 1) % 2]

\* btcutil.Address.IsSegwit of the decoded address.
IsSegwitAddr(a) == a \in {"s1", "s2"}

\* utils.Int64Comparator / UInt32Comparator / bytes.Compare.
IntCompare(a, b) == IF a < b THEN -1 ELSE IF a > b THEN 1 ELSE 0

\* NilComparator: by transaction hash, then output index.  The value
\* comparison of its first line is computed and dropped.
NilComparator(s1, s2) ==
    LET txidCmp == IntCompare(s1.hash, s2.hash)
    IN  IF txidCmp # 0 THEN txidCmp ELSE IntCompare(s1.index, s2.index)

PreferOldest(s1, s2) ==
    IF s1.height < s2.height THEN -1
    ELSE IF s1.height > s2.height THEN 1
    ELSE NilComparator(s1, s2)

\* A comparator by value alone: no tie-break on the outpoint.
PreferBiggestNoTie(s1, s2) ==
    IF s1.value < s2.value THEN 1
    ELSE IF s1.value > s2.value THEN -1
    ELSE 0

PreferBiggest(s1, s2) ==
    IF s1.value < s2.value THEN 1
    ELSE IF s1.value > s2.value THEN -1
    ELSE NilComparator(s1, s2)

\* The comparator a tree was built with: "nil" stands for PreferBiggest.
Compare(cmp, s1, s2) ==
    IF cmp = "PreferOldest" THEN PreferOldest(s1, s2) ELSE PreferBiggest(s1, s2)

\* ---------------------------------------- redblacktree as sorted sequence
\* A tree is the sequence of its keys in comparator order; keys are rows
\* (indexes into the wallet u).

\* Put: a key that compares equal to a stored key replaces it.
TreePut(u, cmp, t, k) ==
    LET same == {i \in DOMAIN t : Compare(cmp, u[t[i]], u[k]) = 0}
        before == Cardinality({i \in DOMAIN t : Compare(cmp, u[t[i]], u[k]) < 0})
    IN  IF same # {}
        THEN [i \in DOMAIN t |-> IF i \in same THEN k ELSE t[i]]
        ELSE SubSeq(t, 1, before) \o <<k>> \o SubSeq(t, before + 1, Len(t))

\* Left().Key: the best-ranked key.
TreeLeft(t) == t[1]

\* Right().Key: the worst-ranked key.
TreeRight(t) == t[Len(t)]

\* Remove: drops the stored key that compares equal to k.
TreeRemove(u, cmp, t, k) ==
    LET keep == {i \in DOMAIN t : Compare(cmp, u[t[i]], u[k]) # 0}
    IN  IF keep = DOMAIN t THEN t
        ELSE LET i == CHOOSE j \in DOMAIN t : j \notin keep
             IN  SubSeq(t, 1, i - 1) \o SubSeq(t, i + 1, Len(t))

\* ------------------------------------------------------------ state

VARIABLES
    utxo,               \* the wallet's outputs, in the store's scan order
    store,              \* rows currently in the persistent unspent bucket
    locked,             \* the LockSet: rows reserved by the caller
    tip,                \* bs.Height
    queueCap,           \* entries the deletion queue of one call takes:
                        \* MaxOutputsToDelete, or fewer where the model scales
                        \* the queue down so that a small wallet fills it
    req,                \* the CreateTxReq of the attempts
    pc,                 \* position in txToOutputs
    attempt,            \* calls of txToOutputs so far
    cursor,             \* next row the store iteration offers, 0 when none
    visits,
    haveAmounts,        \* address -> amountCount
    winner,             \* address of the winning amountCount, or None
    out,                \* eligibleOutputs
    outputsToDelete,
    burnedOutputCount,
    outAc,              \* the combined pool of the cross-address fallback
    done,
    toFold,             \* groups the fallback's range loop has not yet taken
    dbDeleted,          \* rows deleted inside the open storage transaction
    tx,                 \* the AuthoredTx in progress, or None
    ret,                \* what the last call returned: [tx, err]
    committed,          \* dbtx.Commit() succeeded in this attempt
    watched,            \* addresses handed to WatchAddrs
    storeBefore,        \* store when the attempt began
    lockedBefore,       \* LockSet when the attempt began
    prev,               \* the previous attempt: its eligibleOutputs, its draft,
                        \* and the store and LockSet it began with
    selected,           \* the list an input source was made from
    source,             \* the closure of that input source
    calls,              \* what each call of that input source returned
    ordered,            \* a group's tree of outputs, filled apart from a scan
    inserted,           \* the rows put into that tree, in the order put
    bestHeight,         \* height of the best block, -1 before the genesis block
    chain,              \* the blocks connected since the start, oldest first
    balances,           \* the addressbalance bucket: script -> balanceInfo list
    changes,            \* the last block handed to getBlockChanges, and
                        \* what it returned for it
    applied,            \* the calls of applyBalanceChange of the last update
    indexErr,           \* the error of the last update, or None
    reported            \* what the last GetBalances handed to its handler

walletVars == <<utxo, tip, req, queueCap>>
sourceVars == <<selected, source, calls>>
\* What no step of txToOutputs touches.
compareVars == <<ordered, inserted>>
indexVars == <<bestHeight, chain, balances, changes, applied, indexErr, reported>>
libVars == <<sourceVars, compareVars, indexVars>>
scanVars == <<cursor, visits, haveAmounts, winner, out, outputsToDelete, burnedOutputCount>>
foldVars == <<outAc, done, toFold>>
callVars == <<tx, ret, committed, watched, storeBefore, lockedBefore, prev>>
vars == <<utxo, store, locked, tip, queueCap, req, libVars, pc, attempt, cursor, visits, haveAmounts,
          winner, out, outputsToDelete, burnedOutputCount, outAc, done, toFold,
          dbDeleted, tx, ret, committed, watched, storeBefore, lockedBefore, prev>>

Rows == DOMAIN utxo

Value == [r \in Rows |-> utxo[r].value]

EmptyOut == [credits |-> <<>>, unconfirmedCount |-> 0, unconfirmedAmt |-> 0,
             unusedCount |-> 0, unusedAmt |-> 0]

EmptyAc == [amount |-> 0, isSegwit |-> TRUE, credits |-> <<>>]

\* The nil *AuthoredTx: a transaction has at least one input.
NoTx == [inputs |-> <<>>, additional |-> <<>>, outputs |-> <<>>, changeIndex |-> -1,
         signed |-> FALSE, validated |-> FALSE]

NoRet == [tx |-> NoTx, err |-> None]

\* ---------------------------------------------------- collaborators

\* waddrmgr confirms/confirmed: depth of txHeight at curHeight, against minconf.
confirmed(minconf, txHeight, curHeight) ==
    LET confirms == IF txHeight = -1 \/ txHeight > curHeight THEN 0
                    ELSE curHeight - txHeight + 1
    IN  confirms >= minconf

\* txrules.IsBurned: a coinbase output older than the burn age.
IsBurned(uns, height) == uns.coinbase /\ height - uns.height > BurnAge

\* Size-proportional fee of a transaction with count inputs.
Fee(r, count, segwit) == r.feeRate * count * (IF segwit THEN 1 ELSE 2)

\* enough.IsEnough.WellIsIt: never when sweeping, else the amount covers the
\* requested outputs plus the fee of that many inputs.
WellIsIt(r, count, segwit, amount) ==
    ~r.sweeping /\ amount >= r.target + Fee(r, count, segwit)

IsSweeping(r) == r.sweeping

\* ------------------------------------------------ findEligibleOutputs

\* Over the limit only from one member more than the default caps.
overLimitStrict(ac, maxInputs) ==
    LET count == Len(ac.credits)
    IN  IF maxInputs > 0 THEN count > maxInputs
        ELSE IF count <= MaxInputsPerTxLegacy THEN FALSE
        ELSE IF ac.isSegwit /\ count <= MaxInputsPerTx THEN FALSE
        ELSE TRUE

overLimit(ac, maxInputs) ==
    LET count == Len(ac.credits)
    IN  IF maxInputs > 0 THEN count > maxInputs
        ELSE IF count < MaxInputsPerTxLegacy THEN FALSE
        ELSE IF ac.isSegwit /\ count < MaxInputsPerTx THEN FALSE
        ELSE TRUE

ClassifyBurnedAsSpendable(uns, row, r) ==
    IF uns.height >= 0 /\ uns.height < r.inputMinHeight THEN "belowMinHeight"
    ELSE IF uns.coinbase /\ ~confirmed(CoinbaseMaturity, uns.height, tip) THEN "immature"
    ELSE IF uns.value = 0 THEN "zero"
    ELSE IF r.minconf > 0 /\ ~confirmed(r.minconf, uns.height, tip) THEN "unconfirmed"
    ELSE IF row \in locked THEN "locked"
    ELSE "eligible"

ClassifyNoFloor(uns, row, r) ==
    IF uns.coinbase /\ ~confirmed(CoinbaseMaturity, uns.height, tip) THEN "immature"
    ELSE IF uns.coinbase /\ IsBurned(uns, tip + BurnLookAhead) THEN "burned"
    ELSE IF uns.value = 0 THEN "zero"
    ELSE IF r.minconf > 0 /\ ~confirmed(r.minconf, uns.height, tip) THEN "unconfirmed"
    ELSE IF row \in locked THEN "locked"
    ELSE "eligible"

ClassifyIgnoringLocks(uns, row, r) ==
    IF uns.height >= 0 /\ uns.height < r.inputMinHeight THEN "belowMinHeight"
    ELSE IF uns.coinbase /\ ~confirmed(CoinbaseMaturity, uns.height, tip) THEN "immature"
    ELSE IF uns.coinbase /\ IsBurned(uns, tip + BurnLookAhead) THEN "burned"
    ELSE IF uns.value = 0 THEN "zero"
    ELSE IF r.minconf > 0 /\ ~confirmed(r.minconf, uns.height, tip) THEN "unconfirmed"
    ELSE "eligible"

ClassifyLockedFirst(uns, row, r) ==
    IF uns.height >= 0 /\ uns.height < r.inputMinHeight THEN "belowMinHeight"
    ELSE IF uns.coinbase /\ ~confirmed(CoinbaseMaturity, uns.height, tip) THEN "immature"
    ELSE IF uns.coinbase /\ IsBurned(uns, tip + BurnLookAhead) THEN "burned"
    ELSE IF uns.value = 0 THEN "zero"
    ELSE IF row \in locked THEN "locked"
    ELSE IF r.minconf > 0 /\ ~confirmed(r.minconf, uns.height, tip) THEN "unconfirmed"
    ELSE "eligible"

\* The exclusion rules of the scan callback, first match wins.
Classify(uns, row, r) ==
    IF uns.height >= 0 /\ uns.height < r.inputMinHeight THEN "belowMinHeight"
    ELSE IF uns.coinbase /\ ~confirmed(CoinbaseMaturity, uns.height, tip) THEN "immature"
    ELSE IF uns.coinbase /\ IsBurned(uns, tip + BurnLookAhead) THEN "burned"
    ELSE IF uns.value = 0 THEN "zero"
    ELSE IF r.minconf > 0 /\ ~confirmed(r.minconf, uns.height, tip) THEN "unconfirmed"
    ELSE IF row \in locked THEN "locked"
    ELSE "eligible"

\* haveAmounts[uns.Address], created on first sight.
GroupOf(addr) ==
    IF addr \in DOMAIN haveAmounts THEN haveAmounts[addr]
    ELSE [amount |-> 0, isSegwit |-> IsSegwitAddr(addr), credits |-> <<>>]

\* ha.credits.Put(uns, nil); ha.amount += uns.Value
Insert(ac, cmp, row) ==
    [ac EXCEPT !.credits = TreePut(utxo, cmp, @, row), !.amount = @ + utxo[row].value]

EvictKeepAmount(ac, cmp) ==
    [ac EXCEPT !.credits = TreeRemove(utxo, cmp, @, TreeRight(ac.credits))]

\* ha.credits.Remove(worst); ha.amount -= worst.Value
Evict(ac, cmp) ==
    LET worst == TreeRight(ac.credits)
    IN  [ac EXCEPT !.credits = TreeRemove(utxo, cmp, @, worst),
                   !.amount = @ - utxo[worst].value]

CountUnconfirmedOnly(o, uns) == [o EXCEPT !.unconfirmedCount = @ + 1]

\* out.unconfirmedCount++; out.unconfirmedAmt += uns.Value
CountUnconfirmed(o, uns) ==
    [o EXCEPT !.unconfirmedCount = @ + 1, !.unconfirmedAmt = @ + uns.value]

QueueAlwaysHasRoom(q) == TRUE

\* len(outputsToDelete) < 1_000_000
QueueHasRoom(q) == Len(q) < queueCap

\* Bookkeeping that counts the outputs left out and not what they hold.
CountUnusedNoAmount(o, count, amount) ==
    [o EXCEPT !.unusedCount = @ + count]

\* out.unusedAmt += worst.Value; out.unusedCount++
CountUnused(o, count, amount) ==
    [o EXCEPT !.unusedCount = @ + count, !.unusedAmt = @ + amount]

\* The stored rows the iteration offers: all of them, or those of the
\* requested addresses when any are given.
Offered ==
    {j \in store : req.inputAddresses = {} \/ utxo[j].addr \in req.inputAddresses}

\* The next stored row after r that the iteration offers, 0 when the scan is
\* exhausted.
NextRow(r) ==
    LET later == {j \in Offered : j > r}
    IN  IF later = {} THEN 0 ELSE CHOOSE j \in later : \A k \in later : j <= k

\* A callback that drops the worst member of every sufficient group.
CollectDropWhenEnough(row) ==
    LET cmp == req.comparator
        addr == utxo[row].addr
        ha1 == Insert(GroupOf(addr), cmp, row)
        enough == WellIsIt(req, Len(ha1.credits), ha1.isSegwit, ha1.amount)
        worst == TreeRight(ha1.credits)
        drop == enough
        ha2 == IF drop THEN Evict(ha1, cmp) ELSE ha1
        out2 == IF drop THEN CountUnused(out, 1, utxo[worst].value) ELSE out
    IN  IF enough /\ cmp = "nil"
        THEN [ha |-> ha2, out |-> out2, winner |-> addr, brk |-> TRUE]
        ELSE IF ~overLimit(ha2, req.maxInputs)
        THEN [ha |-> ha2, out |-> out2, winner |-> winner, brk |-> FALSE]
        ELSE IF IsSweeping(req) /\ cmp = "nil"
        THEN [ha |-> ha2, out |-> out2, winner |-> addr, brk |-> TRUE]
        ELSE [ha |-> Evict(ha2, cmp),
              out |-> CountUnused(out2, 1, utxo[TreeRight(ha2.credits)].value),
              winner |-> winner, brk |-> FALSE]

\* A callback that short-circuits whatever the comparator.
CollectAlwaysShortCircuit(row) ==
    LET cmp == req.comparator
        addr == utxo[row].addr
        ha1 == Insert(GroupOf(addr), cmp, row)
        enough == WellIsIt(req, Len(ha1.credits), ha1.isSegwit, ha1.amount)
        worst == TreeRight(ha1.credits)
        drop == enough /\ WellIsIt(req, Len(ha1.credits) - 1, ha1.isSegwit,
                                   ha1.amount - utxo[worst].value)
        ha2 == IF drop THEN Evict(ha1, cmp) ELSE ha1
        out2 == IF drop THEN CountUnused(out, 1, utxo[worst].value) ELSE out
    IN  IF enough
        THEN [ha |-> ha2, out |-> out2, winner |-> addr, brk |-> TRUE]
        ELSE IF ~overLimit(ha2, req.maxInputs)
        THEN [ha |-> ha2, out |-> out2, winner |-> winner, brk |-> FALSE]
        ELSE IF IsSweeping(req)
        THEN [ha |-> ha2, out |-> out2, winner |-> addr, brk |-> TRUE]
        ELSE [ha |-> Evict(ha2, cmp),
              out |-> CountUnused(out2, 1, utxo[TreeRight(ha2.credits)].value),
              winner |-> winner, brk |-> FALSE]

\* A callback that scans on after a group has become sufficient.
CollectNoShortCircuit(row) ==
    LET cmp == req.comparator
        addr == utxo[row].addr
        ha1 == Insert(GroupOf(addr), cmp, row)
        enough == WellIsIt(req, Len(ha1.credits), ha1.isSegwit, ha1.amount)
        worst == TreeRight(ha1.credits)
        drop == enough /\ WellIsIt(req, Len(ha1.credits) - 1, ha1.isSegwit,
                                   ha1.amount - utxo[worst].value)
        ha2 == IF drop THEN Evict(ha1, cmp) ELSE ha1
        out2 == IF drop THEN CountUnused(out, 1, utxo[worst].value) ELSE out
    IN  IF ~overLimit(ha2, req.maxInputs)
        THEN [ha |-> ha2, out |-> out2,
              winner |-> IF enough /\ cmp = "nil" THEN addr ELSE winner, brk |-> FALSE]
        ELSE IF IsSweeping(req) /\ cmp = "nil"
        THEN [ha |-> ha2, out |-> out2, winner |-> addr, brk |-> TRUE]
        ELSE [ha |-> Evict(ha2, cmp),
              out |-> CountUnused(out2, 1, utxo[TreeRight(ha2.credits)].value),
              winner |-> winner, brk |-> FALSE]

\* What the callback does with an eligible output: [ha, out, winner, brk].
Collect(row) ==
    LET cmp == req.comparator
        addr == utxo[row].addr
        ha1 == Insert(GroupOf(addr), cmp, row)
        enough == WellIsIt(req, Len(ha1.credits), ha1.isSegwit, ha1.amount)
        worst == TreeRight(ha1.credits)
        drop == enough /\ WellIsIt(req, Len(ha1.credits) - 1, ha1.isSegwit,
                                   ha1.amount - utxo[worst].value)
        ha2 == IF drop THEN Evict(ha1, cmp) ELSE ha1
        out2 == IF drop THEN CountUnused(out, 1, utxo[worst].value) ELSE out
    IN  IF enough /\ cmp = "nil"
        THEN [ha |-> ha2, out |-> out2, winner |-> addr, brk |-> TRUE]
        ELSE IF ~overLimit(ha2, req.maxInputs)
        THEN [ha |-> ha2, out |-> out2, winner |-> winner, brk |-> FALSE]
        ELSE IF IsSweeping(req) /\ cmp = "nil"
        THEN [ha |-> ha2, out |-> out2, winner |-> addr, brk |-> TRUE]
        ELSE [ha |-> Evict(ha2, cmp),
              out |-> CountUnused(out2, 1, utxo[TreeRight(ha2.credits)].value),
              winner |-> winner, brk |-> FALSE]

\* ks, a sequence of keys, put one by one into the tree t.
RECURSIVE PutRange(_, _, _, _, _)
PutRange(t, cmp, ks, lo, hi) ==
    IF lo > hi THEN t
    ELSE IF lo = hi THEN TreePut(utxo, cmp, t, ks[lo])
    ELSE LET mid == (lo + hi) \div 2
             left == PutRange(t, cmp, ks, lo, mid)
         IN  IF Len(left) >= 0 THEN PutRange(left, cmp, ks, mid + 1, hi) ELSE left

PutAll(t, cmp, ks) == PutRange(t, cmp, ks, 1, Len(ks))

\* for outAc.overLimit(maxInputs) { remove the worst }: [ac, out, wasOver].
RECURSIVE EvictTimes(_, _)
\* k rounds of the loop body, by halves: the worst is removed and counted.
EvictTimes(st, k) ==
    IF k = 0 THEN st
    ELSE IF k = 1
    THEN [ac |-> Evict(st.ac, "nil"),
          out |-> CountUnused(st.out, 1, utxo[TreeRight(st.ac.credits)].value),
          wasOver |-> TRUE]
    ELSE LET half == EvictTimes(st, k \div 2)
         IN  IF half.wasOver THEN EvictTimes(half, k - (k \div 2)) ELSE half

\* The loop runs once for each size, from the pool's down, that is over the
\* limit.
EvictLoop(ac, o, wasOver) ==
    LET rounds == Cardinality({j \in 1..Len(ac.credits) :
                      overLimit([ac EXCEPT !.credits = SubSeq(@, 1, j)], req.maxInputs)})
    IN  EvictTimes([ac |-> ac, out |-> o, wasOver |-> wasOver], rounds)

\* The members of ac put into the combined pool; the pool's amount is left
\* as it is.
Fold(ac) ==
    [outAc EXCEPT !.credits = PutAll(@, "nil", ac.credits),
                  !.isSegwit = @ /\ ac.isSegwit]

convertNothing(ac) == <<>>

\* The keys of the tree from the worst-ranked to the best.
convertReversed(ac) == [i \in DOMAIN ac.credits |-> ac.credits[Len(ac.credits) + 1 - i]]

convertResult(ac) == ac.credits

\* ------------------------------------------------------- txToOutputs

\* The closure state of makeInputSource.
InputSourceInit(eligible) ==
    [currentTotal |-> 0, currentInputs |-> <<>>, currentAdditonal |-> <<>>,
     eligible |-> eligible]

\* The loop goes on while the total is at or below the target.
ConsumeUpToTarget(el, total, target) ==
    LET n == Cardinality({j \in 0..(Len(el) - 1) :
                             total + SumRange(Value, el, 1, j) <= target})
    IN  [total |-> total + SumRange(Value, el, 1, n), n |-> n]

\* for currentTotal < target && len(eligible) != 0: the loop takes one more
\* of el after each prefix that leaves the total below the target.
Consume(el, total, target) ==
    LET n == Cardinality({j \in 0..(Len(el) - 1) :
                             total + SumRange(Value, el, 1, j) < target})
    IN  [total |-> total + SumRange(Value, el, 1, n), n |-> n]

\* One call of the input source with a target: the closure after the call,
\* whose currentTotal, currentInputs and currentAdditonal the call returns.
InputSource(st, target) ==
    LET c == Consume(st.eligible, st.currentTotal, target)
    IN  [currentTotal |-> c.total,
         currentInputs |-> st.currentInputs \o SubSeq(st.eligible, 1, c.n),
         currentAdditonal |->
             st.currentAdditonal \o [j \in 1..c.n |->
                                        [pkScript |-> utxo[st.eligible[j]].addr,
                                         value |-> utxo[st.eligible[j]].value]],
         eligible |-> SubSeq(st.eligible, c.n + 1, Len(st.eligible))]

\* A change source that stops at the first credit whose script resolves to
\* exactly one address.
ChangeSourceFirstMatch(credits) ==
    LET singles == {i \in DOMAIN credits : utxo[credits[i]].single}
    IN  IF req.changeAddress # None THEN [addr |-> req.changeAddress, err |-> None]
        ELSE IF singles = {} THEN [addr |-> None, err |-> "NoChangeAddress"]
        ELSE [addr |-> utxo[credits[CHOOSE i \in singles : \A j \in singles : i <= j]].addr,
              err |-> None]

\* changeSource: the pinned address, else the address of the last credit
\* whose script resolves to exactly one address.
ChangeSource(credits) ==
    LET singles == {i \in DOMAIN credits : utxo[credits[i]].single}
    IN  IF req.changeAddress # None THEN [addr |-> req.changeAddress, err |-> None]
        ELSE IF singles = {} THEN [addr |-> None, err |-> "NoChangeAddress"]
        ELSE [addr |-> utxo[credits[CHOOSE i \in singles : \A j \in singles : j <= i]].addr,
              err |-> None]

AllSegwit(inputs) == \A i \in DOMAIN inputs : IsSegwitAddr(utxo[inputs[i]].addr)

Draft(inputs, outputs, changeIndex) ==
    [inputs |-> inputs, additional |-> [i \in DOMAIN inputs |-> utxo[inputs[i]].value],
     outputs |-> outputs, changeIndex |-> changeIndex,
     signed |-> FALSE, validated |-> FALSE]

RECURSIVE AuthorLoop(_, _)
\* txauthor.NewUnsignedTransaction for a fixed target: fetch inputs until they
\* cover the outputs and the fee of the inputs fetched, then add the change.
AuthorLoop(st, targetFee) ==
    LET st2 == InputSource(st, req.target + targetFee)
        n == Len(st2.currentInputs)
        maxRequiredFee == Fee(req, n, AllSegwit(st2.currentInputs))
        changeAmount == st2.currentTotal - req.target - maxRequiredFee
        pay == <<[kind |-> "pay", value |-> req.target, addr |-> None]>>
        change == ChangeSource(out.credits)
    IN  IF n = 0 \/ st2.currentTotal < req.target + targetFee
        THEN [tx |-> NoTx, err |-> "ImpossibleTx"]
        ELSE IF st2.currentTotal - req.target < maxRequiredFee
        THEN AuthorLoop(st2, maxRequiredFee)
        ELSE IF changeAmount = 0
        THEN [tx |-> Draft(st2.currentInputs, pay, -1), err |-> None]
        ELSE IF change.err # None
        THEN [tx |-> NoTx, err |-> change.err]
        ELSE [tx |-> Draft(st2.currentInputs,
                           pay \o <<[kind |-> "change", value |-> changeAmount,
                                     addr |-> change.addr]>>, 1),
              err |-> None]

\* txauthor.NewUnsignedTransaction.  A sweep takes every input offered and
\* pays all of it, less the fee, to the sweep output.
NewUnsignedTransaction(credits) ==
    IF req.sweeping
    THEN LET st == InputSource(InputSourceInit(credits), SumSeq(Value, credits) + 1)
             fee == Fee(req, Len(st.currentInputs), AllSegwit(st.currentInputs))
         IN  IF st.currentInputs = <<>> \/ st.currentTotal <= fee
             THEN [tx |-> NoTx, err |-> "ImpossibleTx"]
             ELSE [tx |-> Draft(st.currentInputs,
                                <<[kind |-> "pay", value |-> st.currentTotal - fee,
                                   addr |-> None]>>, -1),
                   err |-> None]
    ELSE AuthorLoop(InputSourceInit(credits), Fee(req, 1, TRUE))

AuthorErrorInsufficient(err) ==
    IF err # "ImpossibleTx" THEN err ELSE "InsufficientFundsError"

\* The confirmation depth is blamed before the input cap.
AuthorErrorUnconfirmedFirst(err) ==
    IF err # "ImpossibleTx" THEN err
    ELSE IF out.unconfirmedCount > 0 THEN "UnconfirmedCoinsError"
    ELSE IF out.unusedCount > 0 THEN "TooManyInputsError"
    ELSE "InsufficientFundsError"

\* Lines 153-160 and 208-213: the message of InsufficientFundsError, and the
\* addresses it names.  A request without restriction carries no address
\* list (nil).
InsufficientFundsMessage(r) ==
    IF r.inputAddresses # {}
    THEN [text |-> "address(es) do not have enough balance", addrs |-> r.inputAddresses]
    ELSE [text |-> "wallet does not have enough balance", addrs |-> {}]

\* The numbers the error's message carries: how many outputs were left out
\* and how much they hold.
ErrorReport(e) ==
    IF e = "TooManyInputsError"
    THEN [count |-> out.unusedCount, amt |-> out.unusedAmt]
    ELSE IF e = "UnconfirmedCoinsError"
    THEN [count |-> out.unconfirmedCount, amt |-> out.unconfirmedAmt]
    ELSE [count |-> 0, amt |-> 0]

\* The error txToOutputs returns for an authoring error.
AuthorError(err) ==
    IF err # "ImpossibleTx" THEN err
    ELSE IF out.unusedCount > 0 THEN "TooManyInputsError"
    ELSE IF out.unconfirmedCount > 0 THEN "UnconfirmedCoinsError"
    ELSE "InsufficientFundsError"

\* tx.RandomizeChangePosition: the change output swapped to position pos.
RandomizeChangePosition(t, pos) ==
    LET c == t.changeIndex + 1
        p == pos + 1
    IN  [t EXCEPT !.outputs = [@ EXCEPT ![c] = t.outputs[p], ![p] = t.outputs[c]],
                  !.changeIndex = pos]

validateNothing(t, firstBad) == None

\* validateMsgTx1: the script engine fails at input firstBad (0: at none).
validateMsgTx1(t, firstBad) ==
    IF Len(t.additional) # Len(t.inputs) THEN "ValidationError"
    ELSE IF firstBad # 0 THEN "ValidationError"
    ELSE None

\* ---------------------------------------------------------- actions

\* A return after which the deletions made inside the storage transaction
\* stay, committed or not.
ReturnAfterKeepingDeletions(t, e, commit, watch, deleted) ==
    /\ pc' = "done"
    /\ ret' = [tx |-> t, err |-> e]
    /\ store' = store \ deleted
    /\ dbDeleted' = {}
    /\ committed' = commit
    /\ watched' = watch
    /\ tx' = NoTx
    /\ cursor' = 0
    /\ visits' = 0
    /\ haveAmounts' = <<>>
    /\ winner' = None
    /\ outputsToDelete' = <<>>
    /\ burnedOutputCount' = 0
    /\ outAc' = EmptyAc
    /\ done' = FALSE
    /\ toFold' = {}
    /\ UNCHANGED <<utxo, tip, queueCap, req, libVars, locked>>

\* txToOutputs returns (t, e) after the rows in deleted were deleted inside
\* the storage transaction: a Commit makes the deletions persistent, the
\* deferred Rollback drops them otherwise, and the locals are gone.
ReturnAfter(t, e, commit, watch, deleted) ==
    /\ pc' = "done"
    /\ ret' = [tx |-> t, err |-> e]
    /\ store' = IF commit THEN store \ deleted ELSE store
    /\ dbDeleted' = {}
    /\ committed' = commit
    /\ watched' = watch
    /\ tx' = NoTx
    /\ cursor' = 0
    /\ visits' = 0
    /\ haveAmounts' = <<>>
    /\ winner' = None
    /\ outputsToDelete' = <<>>
    /\ burnedOutputCount' = 0
    /\ outAc' = EmptyAc
    /\ done' = FALSE
    /\ toFold' = {}
    /\ UNCHANGED <<utxo, tip, queueCap, req, libVars, locked>>

\* txToOutputs returns (t, e) once the deletion loop is over.
Returning(t, e, commit, watch) == ReturnAfter(t, e, commit, watch, dbDeleted)

ReturnWith(t, e, commit, watch) ==
    /\ Returning(t, e, commit, watch)
    /\ UNCHANGED <<attempt, storeBefore, lockedBefore, prev>>

\* txToOutputs, lines 121-146: chain client, storage transaction, best block.
\* A caller retries after a failure from the state a first attempt starts
\* in, so only a returned transaction is followed by another attempt.
Begin ==
    /\ pc \in {"idle", "done"}
    /\ attempt < MaxAttempts
    /\ attempt > 0 => ret.tx # NoTx
    /\ attempt' = attempt + 1
    /\ storeBefore' = store
    /\ lockedBefore' = locked
    /\ prev' = [out |-> out, tx |-> ret.tx, store |-> storeBefore, locked |-> lockedBefore]
    /\ \E fail \in {None, "ChainClientError", "BeginTxError", "BestBlockError"} :
          IF fail # None
          THEN /\ out' = EmptyOut
               /\ Returning(NoTx, fail, FALSE, {})
          ELSE /\ pc' = IF NextRow(0) = 0 THEN "delete" ELSE "scan"
               /\ cursor' = NextRow(0)
               /\ out' = EmptyOut
               /\ ret' = NoRet
               /\ committed' = FALSE
               /\ watched' = {}
               /\ UNCHANGED <<utxo, tip, queueCap, req, libVars, store, locked, visits, haveAmounts, winner,
                              outputsToDelete, burnedOutputCount, outAc, done, toFold,
                              dbDeleted, tx>>

\* The callback of ForEachUnspentOutput on the row under the cursor.
ScanStep ==
    /\ pc = "scan"
    /\ \E ioerr \in BOOLEAN :
          IF ioerr
          THEN /\ ReturnWith(NoTx, "StorageError", FALSE, {})
               /\ UNCHANGED out
          ELSE LET row == cursor
                   uns == utxo[row]
                   class == Classify(uns, row, req)
                   queue == class \in {"burned", "zero"} /\ QueueHasRoom(outputsToDelete)
                   c == Collect(row)
                   brk == class = "eligible" /\ c.brk
                   next == NextRow(row)
               IN  /\ visits' = visits + 1
                   /\ outputsToDelete' = IF queue THEN Append(outputsToDelete, row)
                                         ELSE outputsToDelete
                   /\ burnedOutputCount' = IF queue /\ class = "burned"
                                           THEN burnedOutputCount + 1
                                           ELSE burnedOutputCount
                   /\ out' = IF class = "unconfirmed" THEN CountUnconfirmed(out, uns)
                             ELSE IF class = "eligible" THEN c.out
                             ELSE out
                   /\ haveAmounts' =
                        IF class = "eligible"
                        THEN [a \in DOMAIN haveAmounts \cup {uns.addr} |->
                                 IF a = uns.addr THEN c.ha ELSE haveAmounts[a]]
                        ELSE haveAmounts
                   /\ winner' = IF class = "eligible" THEN c.winner ELSE winner
                   /\ cursor' = IF brk THEN 0 ELSE next
                   /\ pc' = IF brk \/ next = 0 THEN "delete" ELSE "scan"
                   /\ UNCHANGED <<utxo, tip, queueCap, req, libVars, store, locked, attempt, outAc, done,
                                  toFold, dbDeleted, tx, ret, committed, watched,
                                  storeBefore, lockedBefore, prev>>

\* Where a loop of n deletions may fail: at the first, the second or the
\* last of them, or nowhere (0).
FailPoints(n) == {0, 1, 2, n} \cap (0..n)

\* The rows deleted before the deletion at failAt fails.
Executed(failAt) == {outputsToDelete[i] : i \in 1..(failAt - 1)}

\* Lines 530-539: the queued deletions, inside the storage transaction; the
\* deletion at failAt fails (0: none does).
DeleteOutputs ==
    /\ pc = "delete"
    /\ \E failAt \in FailPoints(Len(outputsToDelete)) :
          IF failAt # 0
          THEN /\ ReturnAfter(NoTx, "DeleteError", FALSE, {}, Executed(failAt))
               /\ UNCHANGED <<out, attempt, storeBefore, lockedBefore, prev>>
          ELSE /\ dbDeleted' = Range(outputsToDelete)
               /\ pc' = "winner"
               /\ UNCHANGED <<utxo, tip, queueCap, req, libVars, store, locked, attempt, scanVars, foldVars,
                              tx, ret, committed, watched, storeBefore, lockedBefore, prev>>

\* Lines 541-571: the winner under a custom comparator, the easy path, or
\* the start of the cross-address fallback.
ResolveWinner ==
    /\ pc = "winner"
    /\ LET sufficient == {a \in DOMAIN haveAmounts :
                             WellIsIt(req, Len(haveAmounts[a].credits),
                                      haveAmounts[a].isSegwit, haveAmounts[a].amount)}
           others(w) == DOMAIN haveAmounts \ {w}
       IN  \E w \in (IF req.comparator # "nil" /\ sufficient # {} THEN sufficient
                     ELSE {winner}) :
              /\ winner' = w
              /\ IF w # None
                 THEN /\ out' = [CountUnused(out,
                                     SumSet([a \in others(w) |-> Len(haveAmounts[a].credits)],
                                            others(w)),
                                     SumSet([a \in others(w) |-> haveAmounts[a].amount],
                                            others(w)))
                                 EXCEPT !.credits = convertResult(haveAmounts[w])]
                      /\ pc' = "author"
                      /\ UNCHANGED foldVars
                 ELSE /\ outAc' = EmptyAc
                      /\ done' = FALSE
                      /\ toFold' = DOMAIN haveAmounts
                      /\ pc' = "fold"
                      /\ UNCHANGED out
    /\ UNCHANGED <<utxo, tip, queueCap, req, libVars, store, locked, attempt, cursor, visits, haveAmounts,
                   outputsToDelete, burnedOutputCount, dbDeleted, tx, ret, committed,
                   watched, storeBefore, lockedBefore, prev>>

\* Lines 572-605: one iteration of the fallback's loop over haveAmounts.
FoldGroup ==
    /\ pc = "fold"
    /\ \E a \in toFold :
          LET ac == haveAmounts[a]
              e == EvictLoop(Fold(ac), out, FALSE)
          IN  /\ toFold' = toFold \ {a}
              /\ IF done
                 THEN /\ out' = CountUnused(out, Len(ac.credits), ac.amount)
                      /\ UNCHANGED <<outAc, done>>
                 ELSE /\ outAc' = e.ac
                      /\ out' = e.out
                      /\ done' = IF IsSweeping(req) /\ ~e.wasOver THEN FALSE
                                 ELSE WellIsIt(req, Len(e.ac.credits), e.ac.isSegwit,
                                               e.ac.amount)
    /\ UNCHANGED <<utxo, tip, queueCap, req, libVars, store, locked, pc, attempt, cursor, visits, haveAmounts,
                   winner, outputsToDelete, burnedOutputCount, dbDeleted, tx, ret,
                   committed, watched, storeBefore, lockedBefore, prev>>

\* Lines 607-608: the combined pool is the selected set.
FinishFold ==
    /\ pc = "fold"
    /\ toFold = {}
    /\ out' = [out EXCEPT !.credits = convertResult(outAc)]
    /\ pc' = "author"
    /\ UNCHANGED <<utxo, tip, queueCap, req, libVars, store, locked, attempt, cursor, visits, haveAmounts,
                   winner, outputsToDelete, burnedOutputCount, foldVars, dbDeleted, tx,
                   ret, committed, watched, storeBefore, lockedBefore, prev>>

\* Lines 168-215: the unsigned draft, or the error of the attempt.
Author ==
    /\ pc = "author"
    /\ LET a == NewUnsignedTransaction(out.credits)
       IN  IF a.err # None
           THEN ReturnWith(NoTx, AuthorError(a.err), FALSE, {})
           ELSE /\ tx' = a.tx
                /\ pc' = "randomize"
                /\ UNCHANGED <<utxo, tip, queueCap, req, libVars, store, locked, attempt, scanVars, foldVars,
                               dbDeleted, ret, committed, watched, storeBefore, lockedBefore, prev>>
    /\ UNCHANGED out

\* A randomization that does not look at ChangeIndex before it picks a
\* position.
RandomizeUnconditional ==
    /\ pc = "randomize"
    /\ \E pos \in 0..(Len(tx.outputs) - 1) :
          tx' = IF tx.changeIndex >= 0 THEN RandomizeChangePosition(tx, pos)
                ELSE [tx EXCEPT !.changeIndex = pos]
    /\ pc' = IF req.mode = SendModeUnsigned THEN "dryrun" ELSE "sign"
    /\ UNCHANGED <<utxo, tip, queueCap, req, libVars, store, locked, attempt, scanVars, foldVars, dbDeleted,
                   ret, committed, watched, storeBefore, lockedBefore, prev>>

\* Lines 217-222: the change output, when there is one, moves to a random
\* position among the outputs.
Randomize ==
    /\ pc = "randomize"
    /\ \E pos \in (IF tx.changeIndex >= 0 THEN 0..(Len(tx.outputs) - 1) ELSE {-1}) :
          tx' = IF pos >= 0 THEN RandomizeChangePosition(tx, pos) ELSE tx
    /\ pc' = IF req.mode = SendModeUnsigned THEN "dryrun" ELSE "sign"
    /\ UNCHANGED <<utxo, tip, queueCap, req, libVars, store, locked, attempt, scanVars, foldVars, dbDeleted,
                   ret, committed, watched, storeBefore, lockedBefore, prev>>

\* A dry run that hands the draft back together with the commit error.
DryRunReturnKeepsTx ==
    /\ pc = "dryrun"
    /\ \E ok \in BOOLEAN :
          IF ok THEN ReturnWith(tx, None, TRUE, {})
          ELSE ReturnWith(tx, "CommitError", FALSE, {})
    /\ UNCHANGED out

\* Lines 228-233: the unsigned draft is returned; the storage transaction is
\* committed first.
DryRunReturn ==
    /\ pc = "dryrun"
    /\ \E ok \in BOOLEAN :
          IF ok THEN ReturnWith(tx, None, TRUE, {})
          ELSE ReturnWith(NoTx, "CommitError", FALSE, {})
    /\ UNCHANGED out

\* Lines 235-238: tx.AddAllInputScripts.
SignInputs ==
    /\ pc = "sign"
    /\ \E ok \in BOOLEAN :
          IF ok
          THEN /\ tx' = [tx EXCEPT !.signed = TRUE]
               /\ pc' = "validate"
               /\ UNCHANGED <<utxo, tip, queueCap, req, libVars, store, locked, attempt, scanVars, foldVars,
                              dbDeleted, ret, committed, watched, storeBefore, lockedBefore, prev>>
          ELSE /\ ReturnWith(NoTx, "SignError", FALSE, {})
               /\ UNCHANGED out

\* Lines 240-243: validateMsgTx1 on the signed transaction.
Validate ==
    /\ pc = "validate"
    /\ \E firstBad \in 0..Len(tx.inputs) :
          IF validateMsgTx1(tx, firstBad) = None
          THEN /\ tx' = [tx EXCEPT !.validated = (firstBad = 0)]
               /\ pc' = "finish"
               /\ UNCHANGED <<utxo, tip, queueCap, req, libVars, store, locked, attempt, scanVars, foldVars,
                              dbDeleted, ret, committed, watched, storeBefore, lockedBefore, prev>>
          ELSE /\ ReturnWith(NoTx, validateMsgTx1(tx, firstBad), FALSE, {})
               /\ UNCHANGED out

\* Lines 245-266: a signed transaction is returned; when it is to be
\* broadcast the storage transaction is committed and the change address
\* watched.
Finish ==
    /\ pc = "finish"
    /\ \E ok \in BOOLEAN :
          IF req.mode # SendModeBcasted
          THEN ReturnWith(tx, None, FALSE, {})
          ELSE IF ~ok
          THEN ReturnWith(NoTx, "CommitError", FALSE, {})
          ELSE ReturnWith(tx, None, TRUE,
                          IF tx.changeIndex >= 0
                          THEN {tx.outputs[tx.changeIndex + 1].addr} ELSE {})
    /\ UNCHANGED out

\* The caller reserves the outputs the returned transaction was selected
\* from (LockOutpoint on each).
LockOutpoint ==
    /\ pc = "done"
    /\ ret.tx # NoTx
    /\ attempt < MaxAttempts
    /\ ~(Range(out.credits) \subseteq locked)
    /\ locked' = locked \cup Range(out.credits)
    /\ UNCHANGED <<utxo, store, tip, queueCap, req, libVars, pc, attempt, scanVars, foldVars, dbDeleted,
                   callVars>>

\* ------------------------------------------------------ initial states

Addrs == {"a1", "s1"}
Values == 1..2
Targets == 2..3

Row(k, addr, value, height, coinbase) ==
    [hash |-> OutPointOf(k).hash, index |-> OutPointOf(k).index, addr |-> addr,
     value |-> value, height |-> height, coinbase |-> coinbase, single |-> TRUE]

\* Confirmed, mature, non-zero outputs.
NormalKinds == {[addr |-> a, value |-> v, height |-> 100, coinbase |-> FALSE] :
                    a \in Addrs, v \in Values}

\* A zero-value output, a burned coinbase output, an unconfirmed output.
SpecialKinds == {[addr |-> "a1", value |-> 0, height |-> 100, coinbase |-> FALSE],
                 [addr |-> "a1", value |-> 2, height |-> 50, coinbase |-> TRUE],
                 [addr |-> "a1", value |-> 2, height |-> -1, coinbase |-> FALSE]}

\* Small wallets: the first row of any kind, the others normal.
SmallWallets ==
    {[i \in 1..NumOutputs |-> Row(i, k[i].addr, k[i].value, k[i].height, k[i].coinbase)] :
        k \in {f \in [1..NumOutputs -> NormalKinds \cup SpecialKinds] :
                  \A i \in 2..NumOutputs : f[i] \in NormalKinds}}

Request(target, sweeping, cmp, maxInputs, mode) ==
    [target |-> target, sweeping |-> sweeping, feeRate |-> 0, inputAddresses |-> {},
     minconf |-> 1, inputMinHeight |-> 0, comparator |-> cmp, maxInputs |-> maxInputs,
     changeAddress |-> None, mode |-> mode]

Requests ==
    {Request(t, FALSE, c, m, mode) :
        t \in Targets, c \in {"nil", "PreferOldest"}, m \in {0, 2}, mode \in SendModes}
    \cup {Request(0, TRUE, c, m, mode) :
        c \in {"nil", "PreferOldest"}, m \in {0, 2}, mode \in SendModes}
    \cup {Request(2 * NumOutputs - 2, FALSE, c, 2, SendModeUnsigned) :
        c \in {"nil", "PreferOldest"}}

\* No input source has been made.
NoSource ==
    /\ selected = <<>>
    /\ source = InputSourceInit(<<>>)
    /\ calls = <<>>

\* No tree is filled apart from a scan.
NoCompare ==
    /\ ordered = <<>>
    /\ inserted = <<>>

NoReport == [epoch |-> -1, balances |-> <<>>]

NoChanges == [block |-> [outs |-> <<>>, spent |-> <<>>], bcs |-> <<>>]

\* No block has reached the address balance index.
NoIndex ==
    /\ bestHeight = -1
    /\ chain = <<>>
    /\ balances = <<>>
    /\ changes = NoChanges
    /\ applied = <<>>
    /\ indexErr = None
    /\ reported = NoReport

\* The locals of txToOutputs before the first attempt.
InitCall ==
    /\ store = DOMAIN utxo
    /\ tip = 10200
    /\ pc = "idle"
    /\ attempt = 0
    /\ cursor = 0
    /\ visits = 0
    /\ haveAmounts = <<>>
    /\ winner = None
    /\ out = EmptyOut
    /\ outputsToDelete = <<>>
    /\ burnedOutputCount = 0
    /\ outAc = EmptyAc
    /\ done = FALSE
    /\ toFold = {}
    /\ dbDeleted = {}
    /\ tx = NoTx
    /\ ret = NoRet
    /\ committed = FALSE
    /\ watched = {}
    /\ storeBefore = {}
    /\ lockedBefore = {}
    /\ prev = [out |-> EmptyOut, tx |-> NoTx, store |-> {}, locked |-> {}]

\* The state before the first attempt, but for the LockSet.
InitAttempt ==
    /\ InitCall
    /\ NoSource
    /\ NoCompare
    /\ NoIndex

\* No output is reserved before the first attempt.
InitLocals ==
    /\ locked = {}
    /\ InitAttempt

Init ==
    /\ utxo \in SmallWallets
    /\ req \in Requests
    /\ InitLocals
    /\ queueCap = MaxOutputsToDelete

Next ==
    \/ Begin
    \/ ScanStep
    \/ DeleteOutputs
    \/ ResolveWinner
    \/ FoldGroup
    \/ FinishFold
    \/ Author
    \/ Randomize
    \/ DryRunReturn
    \/ SignInputs
    \/ Validate
    \/ Finish
    \/ LockOutpoint

Spec == Init /\ [][Next]_vars

\* The sweep scenario: NumSweepOutputs confirmed non-segwit outputs of
\* SweepValue each, all of one address or split between two addresses.
SweepWallet(split) ==
    [i \in 1..NumSweepOutputs |->
        Row(i, IF i <= split THEN "a1" ELSE "a2", SweepValue, 100, FALSE)]

SweepRequest(mode) == Request(0, TRUE, "nil", 0, mode)

InitSweep ==
    /\ \E split \in {NumSweepOutputs,
                      NumSweepOutputs \div 2,
                      NumSweepOutputs - MaxInputsPerTxLegacy} :
       \E mode \in SendModes :
          /\ (split # NumSweepOutputs) => (mode = SendModeUnsigned)
          /\ utxo = SweepWallet(split)
          /\ req = SweepRequest(mode)
    /\ InitLocals
    /\ queueCap = MaxOutputsToDelete

SpecSweep == InitSweep /\ [][Next]_vars

\* ---------------------------------------- wallets for the exclusion rules

\* A request with a confirmation threshold and a height floor of its own.
RequestWith(r, minconf, inputMinHeight) ==
    [r EXCEPT !.minconf = minconf, !.inputMinHeight = inputMinHeight]

\* The floor the requests with a floor ask for: above the old output's
\* height, below the others'.
HeightFloor == 80

\* Outputs of every class the scan tells apart: eligible on two addresses,
\* old (below the floor when there is one), zero-value, burned coinbase,
\* immature coinbase (50 blocks under the tip), not yet mined.
FilterKinds ==
    {[addr |-> "a1", value |-> 2, height |-> 100, coinbase |-> FALSE],
     [addr |-> "s1", value |-> 1, height |-> 100, coinbase |-> FALSE],
     [addr |-> "a1", value |-> 2, height |-> 60, coinbase |-> FALSE],
     [addr |-> "a1", value |-> 0, height |-> 100, coinbase |-> FALSE],
     [addr |-> "a1", value |-> 2, height |-> 50, coinbase |-> TRUE],
     [addr |-> "a1", value |-> 2, height |-> 10150, coinbase |-> TRUE],
     [addr |-> "a1", value |-> 2, height |-> -1, coinbase |-> FALSE]}

\* Wallets of one to NumOutputs outputs, each of any class.
FilterWallets ==
    UNION {{[i \in 1..n |-> Row(i, k[i].addr, k[i].value, k[i].height, k[i].coinbase)] :
               k \in [1..n -> FilterKinds]} : n \in 1..NumOutputs}

FilterRequests ==
    {RequestWith(Request(t, FALSE, "nil", 0, mode), mc, floor) :
        t \in Targets, mode \in {SendModeUnsigned, SendModeBcasted},
        mc \in 0..1, floor \in {0, HeightFloor}}

InitFilter ==
    /\ utxo \in FilterWallets
    /\ req \in FilterRequests
    /\ InitLocals
    /\ queueCap = MaxOutputsToDelete

SpecFilter == InitFilter /\ [][Next]_vars

\* ------------------------------------- wallets that fill the queue

\* What the scan queues for deletion: a zero-value output, a burned coinbase
\* output.
FlaggedKinds ==
    {[addr |-> "a1", value |-> 0, height |-> 100, coinbase |-> FALSE],
     [addr |-> "a1", value |-> 2, height |-> 50, coinbase |-> TRUE]}

\* Wallets that hold NumQueueOverflow more outputs to delete than the queue
\* takes, followed by two spendable outputs on two addresses.
QueueWallets ==
    {[i \in 1..(QueueCapScaled + NumQueueOverflow + 2) |->
         IF i <= QueueCapScaled + NumQueueOverflow
         THEN Row(i, k[i].addr, k[i].value, k[i].height, k[i].coinbase)
         ELSE IF i = QueueCapScaled + NumQueueOverflow + 1
         THEN Row(i, "a1", 2, 100, FALSE)
         ELSE Row(i, "s1", 1, 100, FALSE)] :
        k \in [1..(QueueCapScaled + NumQueueOverflow) -> FlaggedKinds]}

QueueRequests ==
    {Request(t, FALSE, "nil", 0, mode) :
        t \in Targets, mode \in {SendModeUnsigned, SendModeBcasted}}

\* The program with its deletion queue scaled down to QueueCapScaled
\* entries, so that a small wallet fills it.
InitQueue ==
    /\ utxo \in QueueWallets
    /\ req \in QueueRequests
    /\ InitLocals
    /\ queueCap = QueueCapScaled

SpecQueue == InitQueue /\ [][Next]_vars

\* ------------------------------- wallets for the authoring errors

\* Confirmed outputs on two addresses, an output whose script resolves to no
\* single address, an output not yet mined.
AuthorKinds ==
    {[addr |-> "a1", value |-> 2, height |-> 100, single |-> TRUE],
     [addr |-> "a1", value |-> 2, height |-> 100, single |-> FALSE],
     [addr |-> "s1", value |-> 2, height |-> 100, single |-> TRUE],
     [addr |-> "a1", value |-> 2, height |-> -1, single |-> TRUE]}

AuthorWallets ==
    {[i \in 1..NumOutputs |->
         [Row(i, k[i].addr, k[i].value, k[i].height, FALSE) EXCEPT !.single = k[i].single]] :
        k \in [1..NumOutputs -> AuthorKinds]}

\* Requests restricted to an address or not, capped at one input or not, and
\* requests that pin the change address.
AuthorRequests ==
    {[Request(t, FALSE, "nil", m, mode) EXCEPT !.inputAddresses = addrs] :
        t \in {1, 3}, m \in {0, 1}, mode \in SendModes, addrs \in {{}, {"a1"}}}
    \cup {[Request(t, FALSE, "nil", 0, mode) EXCEPT !.changeAddress = "c1"] :
        t \in {1, 3}, mode \in SendModes}

InitAuthor ==
    /\ utxo \in AuthorWallets
    /\ req \in AuthorRequests
    /\ InitLocals
    /\ queueCap = MaxOutputsToDelete

SpecAuthor == InitAuthor /\ [][Next]_vars

\* ------------------------- wallets for the precedence of the rules

\* Outputs that more than one exclusion rule matches, and an eligible one:
\* zero-value below the floor, burned coinbase below the floor, zero-value
\* and not mined, zero-value immature coinbase, not mined, eligible.
OverlapKinds ==
    {[addr |-> "a1", value |-> 0, height |-> 60, coinbase |-> FALSE],
     [addr |-> "a1", value |-> 2, height |-> 50, coinbase |-> TRUE],
     [addr |-> "a1", value |-> 0, height |-> -1, coinbase |-> FALSE],
     [addr |-> "a1", value |-> 0, height |-> 10150, coinbase |-> TRUE],
     [addr |-> "a1", value |-> 2, height |-> -1, coinbase |-> FALSE],
     [addr |-> "a1", value |-> 2, height |-> 100, coinbase |-> FALSE]}

OverlapWallets ==
    {[i \in 1..NumOutputs |-> Row(i, k[i].addr, k[i].value, k[i].height, k[i].coinbase)] :
        k \in [1..NumOutputs -> OverlapKinds]}

OverlapRequests ==
    {RequestWith(Request(3, FALSE, "nil", 0, mode), mc, floor) :
        mode \in {SendModeUnsigned, SendModeBcasted}, mc \in 0..1,
        floor \in {0, HeightFloor}}

\* The caller may have reserved any one output before the attempt.
InitOverlap ==
    /\ utxo \in OverlapWallets
    /\ req \in OverlapRequests
    /\ locked \in {{}} \cup {{r} : r \in DOMAIN utxo}
    /\ InitAttempt
    /\ queueCap = MaxOutputsToDelete

SpecOverlap == InitOverlap /\ [][Next]_vars

\* ------------------------------------ wallets for the fallback

\* Confirmed outputs on three addresses.
FallbackKinds ==
    {[addr |-> a, value |-> v, height |-> 100, coinbase |-> FALSE] :
        a \in {"a1", "s1", "s2"}, v \in Values}

FallbackWallets ==
    {[i \in 1..NumOutputs |-> Row(i, k[i].addr, k[i].value, k[i].height, k[i].coinbase)] :
        k \in [1..NumOutputs -> FallbackKinds]}

FallbackRequests ==
    {Request(t, FALSE, c, 0, mode) :
        t \in Targets, c \in {"nil", "PreferOldest"}, mode \in SendModes}

InitFallback ==
    /\ utxo \in FallbackWallets
    /\ req \in FallbackRequests
    /\ InitLocals
    /\ queueCap = MaxOutputsToDelete

SpecFallback == InitFallback /\ [][Next]_vars

\* ------------------------------- sweeps of wallets at the default cap

\* n confirmed non-segwit outputs of SweepValue each, half of them on each
\* of two addresses.
SweepCapWallet(n) ==
    [i \in 1..n |-> Row(i, IF i <= n \div 2 THEN "a1" ELSE "a2", SweepValue, 100, FALSE)]

\* Sweeps of a wallet that holds one output fewer than the default cap for
\* non-segwit inputs, and of one that holds exactly as many.
InitSweepCap ==
    /\ \E n \in {MaxInputsPerTxLegacy - 1, MaxInputsPerTxLegacy} :
       \E mode \in SendModes :
          /\ (n # MaxInputsPerTxLegacy) => (mode = SendModeUnsigned)
          /\ utxo = SweepCapWallet(n)
          /\ req = SweepRequest(mode)
    /\ InitLocals
    /\ queueCap = MaxOutputsToDelete

SpecSweepCap == InitSweepCap /\ [][Next]_vars

\* ------------------------------------------------- the input source

\* Wallets of confirmed outputs of one address.
SourceWallets ==
    {[i \in 1..NumOutputs |-> Row(i, "a1", v[i], 100, FALSE)] :
        v \in [1..NumOutputs -> Values]}

\* The lists of distinct rows of up to NumOutputs rows.
SelectedLists ==
    UNION {{l \in [1..n -> 1..NumOutputs] : \A i, j \in 1..n : i # j => l[i] # l[j]} :
              n \in 0..NumOutputs}

\* makeInputSource(eligibleOuts.credits), line 168.
InitSource ==
    /\ utxo \in SourceWallets
    /\ req = Request(2, FALSE, "nil", 0, SendModeUnsigned)
    /\ locked = {}
    /\ InitCall
    /\ queueCap = MaxOutputsToDelete
    /\ selected \in SelectedLists
    /\ source = InputSourceInit(selected)
    /\ calls = <<>>
    /\ NoCompare
    /\ NoIndex

\* The authoring collaborator calls the input source with a target.
CallInputSource ==
    /\ Len(calls) < MaxCalls
    /\ \E target \in -1..MaxTarget :
          LET st == InputSource(source, target)
          IN  /\ source' = st
              /\ calls' = Append(calls, [target |-> target, total |-> st.currentTotal,
                                         inputs |-> st.currentInputs,
                                         additional |-> st.currentAdditonal])
    /\ UNCHANGED <<utxo, store, locked, tip, queueCap, req, pc, attempt, scanVars, foldVars,
                   dbDeleted, callVars, selected, compareVars, indexVars>>

NextSource == CallInputSource

SpecSource == InitSource /\ [][NextSource]_vars

\* ------------------------- a tree of outputs under the default comparator

\* Outputs of one address put into a tree, line 481, one at a time and in any
\* order; the same output may be put again.
InitCompare ==
    /\ utxo \in SourceWallets
    /\ req = Request(2, FALSE, "nil", 0, SendModeUnsigned)
    /\ locked = {}
    /\ InitCall
    /\ queueCap = MaxOutputsToDelete
    /\ NoSource
    /\ NoCompare
    /\ NoIndex

\* ac.credits.Put(unspent, nil) on a tree made with PreferBiggest.
PutOutput ==
    /\ Len(inserted) < MaxPuts
    /\ \E r \in Rows :
          /\ ordered' = TreePut(utxo, "nil", ordered, r)
          /\ inserted' = Append(inserted, r)
    /\ UNCHANGED <<utxo, store, locked, tip, queueCap, req, pc, attempt, scanVars, foldVars,
                   dbDeleted, callVars, sourceVars, indexVars>>

NextCompare == PutOutput

SpecCompare == InitCompare /\ [][NextCompare]_vars

\* ------------------------------------------- the address balance index

\* epochNum and epochLastBlock; the epochs asked for stay far below the
\* range of uint32.
epochNum(blockHeight) == blockHeight \div blocksPerEpoch

epochLastBlock(e) == (e + 1) * blocksPerEpoch - 1

\* a - b > 1 on uint32: a difference below zero wraps to a number above 1.
DiffAboveOne(a, b) == IF a >= b THEN a - b > 1 ELSE TRUE

\* parseBalance: the first entry of the list at or below heightLimit.
parseBalance(balanceInfo, heightLimit) ==
    LET at == {i \in DOMAIN balanceInfo : balanceInfo[i].blockNum <= heightLimit}
    IN  IF at = {} THEN 0
        ELSE balanceInfo[CHOOSE i \in at : \A j \in at : i <= j].balance

RECURSIVE MostRecentBal(_, _, _)
\* Lines 38-46: the entry the loop has tracked after entry i; it starts
\* from an entry of block 0 with balance 0 and moves on a strictly higher
\* block number.
MostRecentBal(balanceInfo, i, mostRecentBal) ==
    IF i > Len(balanceInfo) THEN mostRecentBal
    ELSE MostRecentBal(balanceInfo, i + 1,
             IF balanceInfo[i].blockNum > mostRecentBal.blockNum
             THEN balanceInfo[i] ELSE mostRecentBal)

\* Lines 47-55: the entries the loop keeps.
Kept(bal, blockNum) ==
    /\ ~(bal.blockNum >= blockNum)
    /\ epochNum(bal.blockNum) # epochNum(blockNum)
    /\ ~DiffAboveOne(epochNum(blockNum), epochNum(bal.blockNum))

\* applyBalanceChange: the new list, or the error and the list as it was.
applyBalanceChange(balanceInfo, change, blockNum) ==
    LET mostRecentBal == MostRecentBal(balanceInfo, 1, [blockNum |-> 0, balance |-> 0])
        keep == SelectSeq(balanceInfo, LAMBDA bal : Kept(bal, blockNum))
        nb == mostRecentBal.balance + change
    IN  IF nb < 0
        THEN [balanceInfo |-> balanceInfo, err |-> "NegativeBalance"]
        ELSE [balanceInfo |-> Append(keep, [blockNum |-> blockNum, balance |-> nb]),
              err |-> None]

\* The comparator NewBalanceChanges gives its map: the script of a against
\* the script of a.
BalanceChangeCompare(a, b) == IntCompare(a.AddressScr, a.AddressScr)

\* tmap.Insert on a map held as the sequence of its keys in comparator
\* order: Ceiling finds the least key not below k; a key that compares equal
\* is replaced by k (redblacktree.Put) and handed back as old (<<>> for nil);
\* at is the place of k in the map.
tmapInsert(m, k) ==
    LET notBelow == {i \in DOMAIN m : BalanceChangeCompare(k, m[i]) <= 0}
        n == IF notBelow = {} THEN 0 ELSE CHOOSE i \in notBelow : \A j \in notBelow : i <= j
    IN  IF n # 0 /\ BalanceChangeCompare(k, m[n]) = 0
        THEN [at |-> n, old |-> <<m[n]>>]
        ELSE [at |-> IF n = 0 THEN Len(m) + 1 ELSE n, old |-> <<>>]

\* The insert closure of getBlockChanges: bc takes the place of an equal
\* key and adds its Diff to its own.
InsertChange(m, bc) ==
    LET r == tmapInsert(m, bc)
    IN  IF r.old # <<>>
        THEN [m EXCEPT ![r.at] = [bc EXCEPT !.Diff = @ + r.old[1].Diff]]
        ELSE SubSeq(m, 1, r.at - 1) \o <<bc>> \o SubSeq(m, r.at, Len(m))

RECURSIVE InsertAll(_, _, _)
InsertAll(m, bcs, i) ==
    IF i > Len(bcs) THEN m ELSE InsertAll(InsertChange(m, bcs[i]), bcs, i + 1)

\* getBlockChanges: the outputs of the block with a value, then the spent
\* outputs with an amount, inserted one by one.
getBlockChanges(block) ==
    LET paid == SelectSeq(block.outs, LAMBDA o : o.value > 0)
        gone == SelectSeq(block.spent, LAMBDA sp : sp.value > 0)
        plus == [i \in DOMAIN paid |-> [AddressScr |-> paid[i].scr, Diff |-> paid[i].value]]
        minus == [i \in DOMAIN gone |-> [AddressScr |-> gone[i].scr, Diff |-> 0 - gone[i].value]]
    IN  InsertAll(<<>>, plus \o minus, 1)

\* dbFetchBalances: the stored list of a script, empty when it has none.
Fetch(scr) == IF scr \in DOMAIN balances THEN balances[scr] ELSE <<>>

\* UpdateBalances: every change applied to the list fetched for its script;
\* the lists are stored when no change failed.
UpdateBalances(blockNum, cs) ==
    LET calls0 == [i \in DOMAIN cs |->
                     LET r == applyBalanceChange(Fetch(cs[i].AddressScr), cs[i].Diff, blockNum)
                     IN  [scr |-> cs[i].AddressScr, before |-> Fetch(cs[i].AddressScr),
                          change |-> cs[i].Diff, blockNum |-> blockNum,
                          after |-> r.balanceInfo, err |-> r.err]]
        failed == {i \in DOMAIN calls0 : calls0[i].err # None}
        first == IF failed = {} THEN Len(calls0)
                 ELSE CHOOSE i \in failed : \A j \in failed : i <= j
        done0 == SubSeq(calls0, 1, first)
        touched == {done0[i].scr : i \in DOMAIN done0}
    IN  [applied |-> done0,
         err |-> IF failed = {} THEN None ELSE "NegativeBalance",
         balances |-> IF failed # {} THEN balances
                      ELSE [scr \in DOMAIN balances \cup touched |->
                              IF scr \in touched
                              THEN LET last == CHOOSE i \in DOMAIN done0 :
                                                  /\ done0[i].scr = scr
                                                  /\ \A j \in DOMAIN done0 :
                                                        done0[j].scr = scr => j <= i
                                   IN  done0[last].after
                              ELSE balances[scr]]]

\* The outputs of the chain not yet spent, by script and value.
Created(o) ==
    Cardinality({<<b, i>> \in (DOMAIN chain) \X (1..MaxOuts) :
                    i \in DOMAIN chain[b].outs /\ chain[b].outs[i] = o})

Spent(o) ==
    Cardinality({<<b, i>> \in (DOMAIN chain) \X (1..MaxSpent) :
                    i \in DOMAIN chain[b].spent /\ chain[b].spent[i] = o})

Outs == [scr : 1..NumScripts, value : 0..MaxValue]

Unspent == {o \in Outs : Created(o) > Spent(o)}

\* The blocks that may come next: up to MaxOuts outputs, and up to MaxSpent
\* spent outputs out of those the chain has left unspent.
BlocksNext ==
    {[outs |-> o, spent |-> sp] :
        o \in UNION {[1..n -> Outs] : n \in 0..MaxOuts},
        sp \in {<<>>} \cup {<<u>> : u \in Unspent}}

\* The scripts of the model are first paid above the start: the genesis
\* block, or a block near the end of the first epoch.
StartHeights == {-1, blocksPerEpoch - 2}

InitIndex ==
    /\ utxo = [i \in 1..NumOutputs |-> Row(i, "a1", 1, 100, FALSE)]
    /\ req = Request(2, FALSE, "nil", 0, SendModeUnsigned)
    /\ locked = {}
    /\ InitCall
    /\ queueCap = MaxOutputsToDelete
    /\ NoSource
    /\ NoCompare
    /\ bestHeight \in StartHeights
    /\ chain = <<>>
    /\ balances = <<>>
    /\ changes = NoChanges
    /\ applied = <<>>
    /\ indexErr = None
    /\ reported = NoReport

walletAll == <<utxo, store, locked, tip, queueCap, req, pc, attempt, scanVars, foldVars,
               dbDeleted, callVars, sourceVars, compareVars>>

\* AddressBalanceIndex.ConnectBlock: the block above the best block; a
\* failed update leaves the index and the chain as they were.
ConnectBlock ==
    /\ Len(chain) < MaxBlocks
    /\ \E block \in BlocksNext :
          LET bc == getBlockChanges(block)
              u == UpdateBalances(bestHeight + 1, bc)
          IN  /\ changes' = [block |-> block, bcs |-> bc]
              /\ applied' = u.applied
              /\ indexErr' = u.err
              /\ balances' = u.balances
              /\ chain' = IF u.err = None THEN Append(chain, block) ELSE chain
              /\ bestHeight' = IF u.err = None THEN bestHeight + 1 ELSE bestHeight
    /\ reported' = NoReport
    /\ UNCHANGED walletAll

\* AddressBalanceIndex.DisconnectBlock: the best block is taken back, its
\* changes inverted and applied at the height below it.
DisconnectBlock ==
    /\ chain # <<>>
    /\ bestHeight >= 1
    /\ LET block == chain[Len(chain)]
           got == getBlockChanges(block)
           bc == [i \in DOMAIN got |-> [got[i] EXCEPT !.Diff = 0 - @]]
           u == UpdateBalances(bestHeight - 1, bc)
       IN  /\ changes' = [block |-> block, bcs |-> got]
           /\ applied' = u.applied
           /\ indexErr' = u.err
           /\ balances' = u.balances
           /\ chain' = IF u.err = None THEN SubSeq(chain, 1, Len(chain) - 1) ELSE chain
           /\ bestHeight' = IF u.err = None THEN bestHeight - 1 ELSE bestHeight
    /\ reported' = NoReport
    /\ UNCHANGED walletAll

\* GetBalances(epochNum): every stored script with parseBalance of its list
\* at the last block of the epoch.
GetBalances(e) ==
    [scr \in DOMAIN balances |-> parseBalance(balances[scr], epochLastBlock(e))]

QueryBalances ==
    /\ reported = NoReport
    /\ \E e \in 0..MaxEpoch :
          reported' = [epoch |-> e, balances |-> GetBalances(e)]
    /\ UNCHANGED <<walletAll, bestHeight, chain, balances, changes, applied, indexErr>>

NextIndex ==
    \/ ConnectBlock
    \/ DisconnectBlock
    \/ QueryBalances

SpecIndex == InitIndex /\ [][NextIndex]_vars

\* ------------------------------------------------------------ claims

TotalOk(ac) == ac.amount = SumSeq(Value, ac.credits)

\* C1: every per-address selection group's running total equals the sum of
\* the values of the outputs in its ordered set, after each callback of the
\* scan and after the insertion the next callback starts with.
C1_RunningTotal ==
    /\ \A a \in DOMAIN haveAmounts : TotalOk(haveAmounts[a])
    /\ (pc = "scan" /\ Classify(utxo[cursor], cursor, req) = "eligible")
          => TotalOk(Insert(GroupOf(utxo[cursor].addr), req.comparator, cursor))

\* A group that has lost a member to an eviction and still holds two.
C1_Witness ==
    /\ pc \in {"scan", "delete"}
    /\ out.unusedCount > 0
    /\ \E a \in DOMAIN haveAmounts : Len(haveAmounts[a].credits) >= 2

\* The cap the selected set is held to.
EffectiveCap(maxInputs, credits) ==
    IF maxInputs > 0 THEN maxInputs
    ELSE IF AllSegwit(credits) THEN MaxInputsPerTx
    ELSE MaxInputsPerTxLegacy

\* C2: when findEligibleOutputs has returned, the selected set holds no more
\* outputs than the effective cap (the override, else 499 or 1460).
C2_WithinCap ==
    pc = "author" => Len(out.credits) <= EffectiveCap(req.maxInputs, out.credits)

\* C3: with the default comparator, a second run on the same store and
\* LockSet returns the selected list and the counts of the first, whatever
\* order the groups are taken in.
C3_Deterministic ==
    (/\ attempt >= 2
     /\ pc = "author"
     /\ req.comparator = "nil"
     /\ storeBefore = prev.store
     /\ lockedBefore = prev.locked) => out = prev.out

\* Two runs on the same snapshot that both went through the fallback with
\* two groups to fold.
C3_Witness ==
    /\ attempt >= 2
    /\ pc = "author"
    /\ req.comparator = "nil"
    /\ storeBefore = prev.store
    /\ lockedBefore = prev.locked
    /\ winner = None
    /\ Cardinality(DOMAIN haveAmounts) >= 2
    /\ Len(out.credits) >= 2

\* C4: a dry run leaves the store with the rows it had when the call began.
C4_DryRunKeepsStore ==
    (pc = "done" /\ req.mode = SendModeUnsigned) => store = storeBefore

\* How often the output o occurs among the outputs of t.
OutputCount(t, o) == Cardinality({i \in DOMAIN t.outputs : t.outputs[i] = o})

SameOutputsAnyOrder(t1, t2) ==
    /\ Len(t1.outputs) = Len(t2.outputs)
    /\ \A o \in Range(t1.outputs) \cup Range(t2.outputs) :
          OutputCount(t1, o) = OutputCount(t2, o)

TwoDryRuns ==
    /\ attempt >= 2
    /\ pc = "done"
    /\ req.mode = SendModeUnsigned
    /\ ret.tx # NoTx
    /\ lockedBefore = prev.locked

\* C5 as stated: two dry runs in a row return equal drafts, change index
\* and output order included.
C5_EqualDrafts == TwoDryRuns => ret.tx = prev.tx

\* C5: with the default comparator, two dry runs in a row return drafts with
\* the same inputs in the same order and the same outputs up to the position
\* of the change output.
C5_EqualUpToChangePosition ==
    (TwoDryRuns /\ req.comparator = "nil")
        => /\ ret.tx.inputs = prev.tx.inputs
           /\ SameOutputsAnyOrder(ret.tx, prev.tx)
           /\ (ret.tx.changeIndex >= 0) = (prev.tx.changeIndex >= 0)

\* Two dry runs whose drafts carry the change at different positions.
C5_Witness ==
    /\ TwoDryRuns
    /\ req.comparator = "nil"
    /\ ret.tx.changeIndex >= 0
    /\ ret.tx.changeIndex # prev.tx.changeIndex
    /\ Len(ret.tx.inputs) >= 2

\* C6: in the signing modes a transaction is returned, committed or has its
\* change address watched only when every input is signed and validated; a
\* signing or validation failure returns the error alone, commits nothing
\* and watches nothing.
C6_SignedAndValidatedFirst ==
    /\ (pc = "done" /\ req.mode # SendModeUnsigned /\ ret.tx # NoTx)
          => (ret.tx.signed /\ ret.tx.validated)
    /\ (req.mode # SendModeUnsigned /\ (committed \/ watched # {}))
          => (pc = "done" /\ ret.tx # NoTx /\ ret.tx.signed /\ ret.tx.validated)
    /\ (pc = "done" /\ ret.err \in {"SignError", "ValidationError"})
          => (ret.tx = NoTx /\ ~committed /\ watched = {} /\ store = storeBefore)

\* A broadcast attempt that was signed, validated, committed and watched.
C6_Witness ==
    /\ pc = "done"
    /\ req.mode = SendModeBcasted
    /\ ret.tx # NoTx
    /\ ret.tx.validated
    /\ committed
    /\ watched # {}

\* C7: an attempt that returns an error returns no transaction, and an
\* attempt visits each stored row at most once.
C7_ErrorMeansNoTx ==
    /\ pc = "done" => ((ret.err # None) = (ret.tx = NoTx))
    /\ visits <= Cardinality(storeBefore)

\* An attempt that failed after its draft was built.
C7_Witness ==
    /\ pc = "done"
    /\ ret.err = "CommitError"
    /\ ret.tx = NoTx
    /\ Len(out.credits) >= 1

\* C8: the storage transaction is committed, and the change address
\* watched, only in sign-and-broadcast mode.
C8_CommitOnlyWhenBroadcast ==
    (committed \/ watched # {}) => req.mode = SendModeBcasted

\* C9: no group, pool or selected set of an attempt holds an output that is
\* in the LockSet, so an attempt that runs after the outputs of the previous
\* one were locked selects none of them.
C9_LockedNeverSelected ==
    pc \notin {"idle", "done"} =>
        /\ \A a \in DOMAIN haveAmounts : Range(haveAmounts[a].credits) \cap locked = {}
        /\ Range(outAc.credits) \cap locked = {}
        /\ Range(out.credits) \cap locked = {}
        /\ (attempt >= 2 /\ Range(prev.out.credits) \subseteq locked)
              => Range(out.credits) \cap Range(prev.out.credits) = {}

\* A second attempt that selected outputs while those of the first were
\* locked.
C9_Witness ==
    /\ attempt >= 2
    /\ pc = "author"
    /\ prev.out.credits # <<>>
    /\ Range(prev.out.credits) \subseteq locked
    /\ out.credits # <<>>

OneAddress == \A i, j \in Rows : utxo[i].addr = utxo[j].addr

CountOn(a) == Cardinality({i \in Rows : utxo[i].addr = a})

InfrastructureErrors ==
    {"ChainClientError", "BeginTxError", "BestBlockError", "StorageError", "DeleteError",
     "CommitError"}

\* Every output of the wallet is held back by rule 4 alone.
AllBelowMinconf ==
    \A r \in Rows : Classify(utxo[r], r, req) = "unconfirmed"

\* C11: when every output of the wallet is spendable but for its
\* confirmation depth (minconf > 0) and the target is positive, the selected
\* set is empty, authoring reports an impossible transaction, and the
\* attempt fails with UnconfirmedCoins, which reports as many outputs as the
\* wallet holds and their total value.
C11_AllUnconfirmed ==
    (AllBelowMinconf /\ req.minconf > 0 /\ req.target > 0 /\ attempt = 1)
        => /\ pc = "author"
              => /\ out.credits = <<>>
                 /\ NewUnsignedTransaction(out.credits).err = "ImpossibleTx"
                 /\ AuthorError("ImpossibleTx") = "UnconfirmedCoinsError"
           /\ pc = "done"
              => /\ ret.tx = NoTx
                 /\ ret.err \in InfrastructureErrors \cup {"UnconfirmedCoinsError"}
                 /\ ret.err = "UnconfirmedCoinsError"
                       => ErrorReport(ret.err) = [count |-> Len(utxo),
                                                  amt |-> SumSet(Value, Rows)]

\* An attempt on a wallet of two unmined outputs has failed with
\* UnconfirmedCoins.
C11_Witness ==
    /\ pc = "done"
    /\ attempt = 1
    /\ Len(utxo) >= 2
    /\ AllBelowMinconf
    /\ req.target > 0
    /\ ret.err = "UnconfirmedCoinsError"

\* The rows the callback has been called on in this attempt: the scan offers
\* its rows in order.
Visited == {r \in Offered : Cardinality({j \in Offered : j <= r}) <= visits}

\* The rows some selection group, the combined pool, the selected set or the
\* transaction in progress holds.
InSelection ==
    UNION {Range(haveAmounts[a].credits) : a \in DOMAIN haveAmounts}
        \cup Range(outAc.credits) \cup Range(out.credits)
        \cup Range(tx.inputs) \cup Range(ret.tx.inputs)

\* The scan and the deletions are over and the attempt has not returned.
AfterDeletions ==
    pc \in {"winner", "fold", "author", "randomize", "dryrun", "sign", "validate", "finish"}

\* A coinbase output past maturity and past the burn window.
PastBurnWindow(r) ==
    /\ utxo[r].coinbase
    /\ confirmed(CoinbaseMaturity, utxo[r].height, tip)
    /\ IsBurned(utxo[r], tip + BurnLookAhead)

\* C12 as stated: every burned coinbase output a scan has visited is queued
\* for deletion, and deleted once the scan is over.
C12_BurnedAlwaysQueued ==
    \A r \in Visited :
        PastBurnWindow(r)
            => /\ r \notin InSelection
               /\ pc \in {"scan", "delete"} => r \in Range(outputsToDelete)
               /\ AfterDeletions => r \in dbDeleted

\* C12: a burned coinbase output is never in a selection group or in the
\* selected set; one at or above the request's height floor that a scan
\* visits while the queue has room is queued for deletion, and is deleted
\* inside the attempt's storage transaction once the scan is over.
C12_BurnedAboveFloorQueued ==
    /\ \A r \in Rows : PastBurnWindow(r) => r \notin InSelection
    /\ \A r \in Visited :
          (PastBurnWindow(r) /\ utxo[r].height >= req.inputMinHeight)
              => /\ pc \in {"scan", "delete"}
                    => \/ r \in Range(outputsToDelete)
                       \/ Len(outputsToDelete) >= queueCap
                 /\ AfterDeletions
                    => \/ r \in dbDeleted
                       \/ Len(outputsToDelete) >= queueCap

\* A burned coinbase output, visited after an eligible one, has been deleted
\* inside the storage transaction of an attempt that goes on to author.
C12_Witness ==
    /\ pc = "author"
    /\ out.credits # <<>>
    /\ \E r \in Visited : r > 1 /\ PastBurnWindow(r) /\ r \in dbDeleted

\* The group of address a satisfies IsEnough.
Sufficient(a) ==
    WellIsIt(req, Len(haveAmounts[a].credits), haveAmounts[a].isSegwit,
             haveAmounts[a].amount)

\* The row the callback was last called on.
LastVisited == CHOOSE r \in Visited : \A j \in Visited : j <= r

\* C13: with the default comparator and a fixed target the scan goes on
\* only while no group satisfies IsEnough; it ends at the output whose
\* insertion makes its group sufficient, that group is the winner, no later
\* output is visited, and the attempt goes on to the deletions with no
\* error; without a winner the scan has visited every stored output.
C13_StopsAtFirstSufficient ==
    (req.comparator = "nil" /\ ~IsSweeping(req))
        => /\ pc = "scan" => /\ winner = None
                             /\ \A a \in DOMAIN haveAmounts : ~Sufficient(a)
           /\ (pc = "delete" /\ winner # None)
                 => /\ Sufficient(winner)
                    /\ \A a \in DOMAIN haveAmounts \ {winner} : ~Sufficient(a)
                    /\ Classify(utxo[LastVisited], LastVisited, req) = "eligible"
                    /\ utxo[LastVisited].addr = winner
                    /\ ret.err = None
           /\ (pc = "delete" /\ winner = None) => visits = Cardinality(Offered)

\* The scan has stopped at the first output, whose address wins, and has
\* not visited the output of a second address that is sufficient alone.
C13_Witness ==
    /\ pc = "delete"
    /\ req.comparator = "nil"
    /\ ~IsSweeping(req)
    /\ winner # None
    /\ visits = 1
    /\ \E r \in store \ Visited :
          /\ utxo[r].addr # winner
          /\ Classify(utxo[r], r, req) = "eligible"
          /\ WellIsIt(req, 1, IsSegwitAddr(utxo[r].addr), utxo[r].value)

\* The selection has found exactly the wallet's one output: it is the
\* winner's, the fallback is not entered, and nothing is counted as
\* unconfirmed or unused.
SelectsTheOnlyOutput ==
    /\ pc = "winner" => winner = utxo[1].addr
    /\ pc # "fold"
    /\ pc \in {"author", "randomize", "dryrun", "sign", "validate", "finish"}
          => out = [EmptyOut EXCEPT !.credits = <<1>>]

\* C14 as stated: a wallet's only output, confirmed to minconf, unlocked,
\* not coinbase and sufficient alone, is selected whatever else the request
\* asks for.
C14_OnlyOutputSelected ==
    (/\ Len(utxo) = 1
     /\ attempt = 1
     /\ confirmed(req.minconf, utxo[1].height, tip)
     /\ 1 \notin locked
     /\ ~utxo[1].coinbase
     /\ WellIsIt(req, 1, IsSegwitAddr(utxo[1].addr), utxo[1].value))
        => SelectsTheOnlyOutput

\* C14: a wallet's only output, confirmed to minconf, unlocked, not coinbase,
\* not below the request's height floor and sufficient alone, is selected:
\* the selected set is exactly that output, with unconfirmedCount = 0 and
\* unusedCount = 0.
C14_OnlyOutputAboveFloorSelected ==
    (/\ Len(utxo) = 1
     /\ attempt = 1
     /\ confirmed(req.minconf, utxo[1].height, tip)
     /\ 1 \notin locked
     /\ ~utxo[1].coinbase
     /\ utxo[1].height >= req.inputMinHeight
     /\ WellIsIt(req, 1, IsSegwitAddr(utxo[1].addr), utxo[1].value))
        => SelectsTheOnlyOutput

\* The one output of a wallet has been selected and the transaction is
\* being authored.
C14_Witness ==
    /\ Len(utxo) = 1
    /\ attempt = 1
    /\ pc = "author"
    /\ req.minconf > 0
    /\ out.credits = <<1>>

\* The amount would pay for the request's outputs and the fee of count
\* non-segwit inputs.
WouldSatisfy(count, amount) == amount >= req.target + Fee(req, count, FALSE)

\* C15: whenever txToOutputs fails with TooManyInputsError, the value of the
\* eligible outputs - the selected ones and the unused ones - would satisfy
\* the target, and the error reports unusedCount and unusedAmt.
C15_TooManyInputsMeansEnoughValue ==
    (pc = "done" /\ ret.err = "TooManyInputsError")
        => /\ WouldSatisfy(Len(out.credits) + out.unusedCount,
                           SumSeq(Value, out.credits) + out.unusedAmt)
           /\ ErrorReport(ret.err) = [count |-> out.unusedCount, amt |-> out.unusedAmt]

\* C16: whenever txToOutputs fails with UnconfirmedCoinsError, the value of
\* the eligible outputs together with the unconfirmed ones would satisfy the
\* target, and the error reports unconfirmedCount and unconfirmedAmt.
C16_UnconfirmedCoinsMeansEnoughValue ==
    (pc = "done" /\ ret.err = "UnconfirmedCoinsError")
        => /\ WouldSatisfy(Len(out.credits) + out.unusedCount + out.unconfirmedCount,
                           SumSeq(Value, out.credits) + out.unusedAmt
                               + out.unconfirmedAmt)
           /\ ErrorReport(ret.err) = [count |-> out.unconfirmedCount,
                                      amt |-> out.unconfirmedAmt]

\* C17: nothing is deleted before the scan is over, the deletions stay
\* inside the attempt's storage transaction, and an attempt whose scan or
\* whose deletion loop meets a storage error returns that error and no
\* transaction, commits nothing and leaves the store as it found it.
C17_StorageErrorRollsBack ==
    /\ pc \in {"scan", "delete"} => dbDeleted = {}
    /\ pc \notin {"idle", "done"} => store = storeBefore
    /\ dbDeleted \subseteq Range(outputsToDelete)
    /\ (pc = "done" /\ ret.err \in {"StorageError", "DeleteError"})
          => /\ ret.tx = NoTx
             /\ ~committed
             /\ store = storeBefore

\* A deletion has failed in a wallet that had two outputs to delete.
C17_Witness ==
    /\ pc = "done"
    /\ ret.err = "DeleteError"
    /\ Cardinality({r \in store : Classify(utxo[r], r, req) \in {"zero", "burned"}}) >= 2

\* The visited rows that rule 4 held back: past rules 1-3, and short of the
\* confirmations the request asks for.
SkippedUnconfirmed == {r \in Visited : Classify(utxo[r], r, req) = "unconfirmed"}

\* C18: during and after the scan unconfirmedCount and unconfirmedAmt are
\* the number and the summed value of the visited outputs that rule 4 held
\* back; no such output is in a group or selected; with minconf = 0 nothing
\* is counted and an unmined output that passes rules 1-3 and is not locked
\* joins its address's group (or is counted unused when the group can do
\* without it).
C18_UnconfirmedBookkeeping ==
    /\ pc \notin {"idle", "done"}
          => /\ out.unconfirmedCount = Cardinality(SkippedUnconfirmed)
             /\ out.unconfirmedAmt = SumSet(Value, SkippedUnconfirmed)
    /\ \A r \in Rows :
          Classify(utxo[r], r, req) = "unconfirmed" => r \notin InSelection
    /\ req.minconf = 0
          => /\ out.unconfirmedCount = 0
             /\ out.unconfirmedAmt = 0
             /\ pc \in {"scan", "delete"}
                   => \A r \in Visited :
                         (/\ utxo[r].height = -1
                          /\ utxo[r].value > 0
                          /\ ~utxo[r].coinbase
                          /\ r \notin locked)
                            => \/ r \in Range(haveAmounts[utxo[r].addr].credits)
                               \/ out.unusedCount > 0

\* A scan has counted two unmined outputs and passed a third output.
C18_Witness ==
    /\ pc = "delete"
    /\ req.minconf > 0
    /\ visits = 3
    /\ out.unconfirmedCount = 2
    /\ out.unconfirmedAmt = 4

\* Mined below the request's height floor.
BelowFloor(r) == utxo[r].height >= 0 /\ utxo[r].height < req.inputMinHeight

\* A coinbase output short of maturity.
Immature(r) == utxo[r].coinbase /\ ~confirmed(CoinbaseMaturity, utxo[r].height, tip)

\* The visited rows the counters know of: all but those skipped silently,
\* those for the deletion queue and the locked ones.
Accounted ==
    {r \in Visited : /\ ~BelowFloor(r)
                     /\ ~Immature(r)
                     /\ utxo[r].value # 0
                     /\ ~PastBurnWindow(r)
                     /\ r \notin locked}

\* C19: an output below the height floor and an immature coinbase output
\* are in no group, pool or selected set and in no deletion queue, and the
\* scan's counters cover the other visited outputs only: each unlocked one
\* that is not for the deletion queue is counted unconfirmed, counted unused
\* or in a group.
C19_SilentSkips ==
    /\ \A r \in Rows :
          (BelowFloor(r) \/ Immature(r))
              => /\ r \notin InSelection
                 /\ r \notin Range(outputsToDelete)
                 /\ r \notin dbDeleted
    /\ pc \in {"scan", "delete"}
          => /\ Cardinality(Accounted)
                   = out.unconfirmedCount + out.unusedCount
                     + SumSet([a \in DOMAIN haveAmounts |-> Len(haveAmounts[a].credits)],
                              DOMAIN haveAmounts)
             /\ SumSet(Value, Accounted)
                   = out.unconfirmedAmt + out.unusedAmt
                     + SumSet([a \in DOMAIN haveAmounts |-> haveAmounts[a].amount],
                              DOMAIN haveAmounts)

\* A scan has passed an output below the floor and an immature coinbase
\* output, and a third output.
C19_Witness ==
    /\ pc = "delete"
    /\ visits = 3
    /\ \E r \in Visited : BelowFloor(r)
    /\ \E r \in Visited : Immature(r) /\ ~BelowFloor(r)
    /\ \E a \in DOMAIN haveAmounts : haveAmounts[a].credits # <<>>

\* Past rules 1 and 2, and for the deletion queue: zero-value or burned.
Flagged(r) ==
    /\ ~BelowFloor(r)
    /\ ~Immature(r)
    /\ utxo[r].value = 0 \/ PastBurnWindow(r)

\* The visited outputs for the deletion queue, up to and including r.
FlaggedUpTo(r) == {j \in Visited : j <= r /\ Flagged(j)}

\* C20: no zero-value output is in a group, pool or selected set; the
\* deletion queue never holds more identifiers than its cap; a zero-value
\* output the scan has visited, not excluded by rule 1 or 2, is in the queue
\* exactly when the queue had room for it, that is when it is among the
\* first cap outputs flagged in this scan.
C20_ZeroValueQueuedUpToCap ==
    /\ \A r \in InSelection : utxo[r].value # 0
    /\ Len(outputsToDelete) <= queueCap
    /\ queueCap <= MaxOutputsToDelete
    /\ pc \in {"scan", "delete"}
          => \A r \in Visited :
                (utxo[r].value = 0 /\ Flagged(r))
                    => (r \in Range(outputsToDelete)
                            <=> Cardinality(FlaggedUpTo(r)) <= queueCap)

\* The scan has passed a zero-value output with the queue full: the output
\* is skipped and not queued.
C20_Witness ==
    /\ pc \in {"scan", "delete"}
    /\ Len(outputsToDelete) = queueCap
    /\ \E r \in Visited : utxo[r].value = 0 /\ r \notin Range(outputsToDelete)
    /\ \E r \in Visited : utxo[r].value = 0 /\ r \in Range(outputsToDelete)

\* Two runs of findEligibleOutputs with a custom comparator on the same
\* store and LockSet, the second one about to author.
TwoCustomRuns ==
    /\ attempt >= 2
    /\ pc = "author"
    /\ req.comparator # "nil"
    /\ storeBefore = prev.store
    /\ lockedBefore = prev.locked

\* C21: with a custom comparator, a second run on the same store and LockSet
\* returns the selected list and the counts of the first, also when more
\* than one group satisfies IsEnough once the scan is over.
C21_CustomDeterministic == TwoCustomRuns => out = prev.out

\* The error the bookkeeping of the Eligibility Report stands for.
Disambiguated ==
    IF out.unusedCount > 0 THEN "TooManyInputsError"
    ELSE IF out.unconfirmedCount > 0 THEN "UnconfirmedCoinsError"
    ELSE "InsufficientFundsError"

\* C22: an impossible-transaction report of the authoring collaborator is
\* returned as TooManyInputs when unusedCount > 0, else as UnconfirmedCoins
\* when unconfirmedCount > 0, else as InsufficientFunds, whose message names
\* the address set of a restricted request; any other authoring error is
\* returned as it is, and the bare report never is.
C22_ErrorPrecedence ==
    /\ pc = "author"
          => LET e == NewUnsignedTransaction(out.credits).err
             IN  /\ e = "ImpossibleTx" => AuthorError(e) = Disambiguated
                 /\ e \notin {None, "ImpossibleTx"} => AuthorError(e) = e
    /\ pc = "done"
          => /\ ret.err # "ImpossibleTx"
             /\ ret.err = "TooManyInputsError" => out.unusedCount > 0
             /\ ret.err = "UnconfirmedCoinsError"
                   => (out.unusedCount = 0 /\ out.unconfirmedCount > 0)
             /\ ret.err = "InsufficientFundsError"
                   => /\ out.unusedCount = 0
                      /\ out.unconfirmedCount = 0
                      /\ req.inputAddresses # {}
                            => InsufficientFundsMessage(req).addrs = req.inputAddresses
             /\ ret.err = "NoChangeAddress"
                   => NewUnsignedTransaction(out.credits).err = "NoChangeAddress"

\* An attempt has failed with TooManyInputs although outputs were held back
\* as unconfirmed too.
C22_Witness ==
    /\ pc = "done"
    /\ ret.err = "TooManyInputsError"
    /\ out.unusedCount > 0
    /\ out.unconfirmedCount > 0

\* Short of the confirmations the request asks for.
BelowMinconf(r) == req.minconf > 0 /\ ~confirmed(req.minconf, utxo[r].height, tip)

\* Past rules 1 to 3: not below the floor, not an immature or burned
\* coinbase output, not zero-value.
PassesRules123(r) ==
    /\ ~BelowFloor(r)
    /\ ~Immature(r)
    /\ ~PastBurnWindow(r)
    /\ utxo[r].value # 0

\* The visited rows that rule 4 holds back, locked or not.
HeldByRule4 == {r \in Visited : PassesRules123(r) /\ BelowMinconf(r)}

\* The visited rows that pass every rule.
PassesAllRules == {r \in Visited : PassesRules123(r) /\ ~BelowMinconf(r) /\ r \notin locked}

\* C23: the first matching exclusion rule alone decides: a zero-value or
\* burned output below the height floor, and a zero-value immature coinbase
\* output, is never queued for deletion; a zero-value output below minconf
\* is queued and not counted as unconfirmed; an output below minconf is
\* counted as unconfirmed also when it is locked; a locked output that
\* passes rules 1-4 is in no group and in no counter.
C23_RulePrecedence ==
    /\ \A r \in Rows :
          ((BelowFloor(r) \/ Immature(r)) /\ (utxo[r].value = 0 \/ PastBurnWindow(r)))
              => (r \notin Range(outputsToDelete) /\ r \notin dbDeleted)
    /\ pc \in {"scan", "delete"}
          => /\ \A r \in Visited :
                   (utxo[r].value = 0 /\ BelowMinconf(r) /\ ~BelowFloor(r) /\ ~Immature(r))
                       => r \in Range(outputsToDelete)
             /\ out.unconfirmedCount = Cardinality(HeldByRule4)
             /\ out.unconfirmedAmt = SumSet(Value, HeldByRule4)
             /\ Cardinality(PassesAllRules)
                   = out.unusedCount
                     + SumSet([a \in DOMAIN haveAmounts |-> Len(haveAmounts[a].credits)],
                              DOMAIN haveAmounts)
             /\ SumSet(Value, PassesAllRules)
                   = out.unusedAmt
                     + SumSet([a \in DOMAIN haveAmounts |-> haveAmounts[a].amount],
                              DOMAIN haveAmounts)
    /\ pc \notin {"idle", "done"} => \A r \in locked : r \notin InSelection

\* A scan has counted a locked unmined output as unconfirmed and has queued
\* a zero-value unmined output.
C23_Witness ==
    /\ pc = "delete"
    /\ req.minconf > 0
    /\ \E r \in Visited \cap locked : PassesRules123(r) /\ BelowMinconf(r)
    /\ out.unconfirmedCount >= 1
    /\ \E r \in Visited : /\ utxo[r].value = 0
                          /\ BelowMinconf(r)
                          /\ r \in Range(outputsToDelete)

\* The amountCount ac satisfies IsEnough.
Enough(ac) == WellIsIt(req, Len(ac.credits), ac.isSegwit, ac.amount)

\* The visited rows that passed every exclusion rule of the scan.
EligibleVisited == {r \in Visited : Classify(utxo[r], r, req) = "eligible"}

\* C24: for a request with a target, the group returned through the
\* single-address winner path satisfies IsEnough for its member count,
\* segwit flag and running total; a callback removes at most one member, the
\* worst-ranked of the group after the insertion, and when the removal was
\* not forced by the cap the group is still sufficient after it.
C24_WinnerStaysSufficient ==
    ~IsSweeping(req)
        => /\ (AfterDeletions /\ pc # "winner" /\ winner # None)
                 => /\ Enough(haveAmounts[winner])
                    /\ out.credits = haveAmounts[winner].credits
                    /\ SumSeq(Value, out.credits) >= req.target
           /\ (pc \in {"delete", "winner"} /\ winner # None) => Enough(haveAmounts[winner])
           /\ pc \in {"scan", "delete"} => out.unusedCount <= Cardinality(EligibleVisited)
           /\ (pc = "scan" /\ Classify(utxo[cursor], cursor, req) = "eligible")
                 => LET ha1 == Insert(GroupOf(utxo[cursor].addr), req.comparator, cursor)
                        c == Collect(cursor)
                    IN  \/ c.ha = ha1 /\ c.out = out
                        \/ /\ c.ha.credits = SubSeq(ha1.credits, 1, Len(ha1.credits) - 1)
                           /\ c.out.unusedCount = out.unusedCount + 1
                           /\ Enough(c.ha) \/ overLimit(ha1, req.maxInputs)

\* The winner path has returned a group that shed a member it could do
\* without.
C24_Witness ==
    /\ pc = "author"
    /\ ~IsSweeping(req)
    /\ winner # None
    /\ out.unusedCount > 0
    /\ Len(out.credits) >= 1
    /\ Cardinality(DOMAIN haveAmounts) = 1

\* The amountCount ac holds more members than its effective cap: the
\* override, else 1460 for a segwit group and 499 for any other.
AboveCap(ac) ==
    Len(ac.credits) > (IF req.maxInputs > 0 THEN req.maxInputs
                       ELSE IF ac.isSegwit THEN MaxInputsPerTx
                       ELSE MaxInputsPerTxLegacy)

\* C25: a group, and the combined pool of the fallback, is over its input
\* cap exactly when it holds more members than its effective cap, so one
\* that holds exactly 499 non-segwit outputs is not over its cap.
C25_OverLimitIffAboveCap ==
    /\ \A a \in DOMAIN haveAmounts :
          overLimit(haveAmounts[a], req.maxInputs) <=> AboveCap(haveAmounts[a])
    /\ overLimit(outAc, req.maxInputs) <=> AboveCap(outAc)

\* C26: unless the request is a sweep with the default comparator, no group
\* is over its cap once the callback has processed an output, and a callback
\* whose insertion puts a group over its cap removes the worst-ranked member
\* of that group and counts it, with its value, as unused.
C26_GroupWithinCapAfterCallback ==
    ~(IsSweeping(req) /\ req.comparator = "nil")
        => /\ pc \in {"scan", "delete"}
                 => \A a \in DOMAIN haveAmounts : ~overLimit(haveAmounts[a], req.maxInputs)
           /\ (pc = "scan" /\ Classify(utxo[cursor], cursor, req) = "eligible")
                 => LET ha1 == Insert(GroupOf(utxo[cursor].addr), req.comparator, cursor)
                        c == Collect(cursor)
                        worst == TreeRight(ha1.credits)
                    IN  overLimit(ha1, req.maxInputs)
                            => /\ c.ha.credits = SubSeq(ha1.credits, 1, Len(ha1.credits) - 1)
                               /\ c.out.unusedCount = out.unusedCount + 1
                               /\ c.out.unusedAmt = out.unusedAmt + utxo[worst].value

\* C27: with a custom comparator the scan names no winner and does not end
\* before the store iteration is exhausted, whatever the groups hold: when
\* the deletions begin every offered output has been visited.  A scan that
\* ended early ran with the default comparator.
C27_CustomComparatorScansAll ==
    /\ req.comparator # "nil"
          => /\ pc \in {"scan", "delete"} => winner = None
             /\ pc = "scan" => cursor # 0
             /\ pc \in {"delete", "winner"} => visits = Cardinality(Offered)
    /\ (pc = "delete" /\ visits < Cardinality(Offered)) => req.comparator = "nil"

\* A scan with a custom comparator has gone through the whole store although
\* the first output alone made its group sufficient.
C27_Witness ==
    /\ pc = "delete"
    /\ req.comparator # "nil"
    /\ ~IsSweeping(req)
    /\ visits = Cardinality(Offered)
    /\ visits >= 2
    /\ Classify(utxo[1], 1, req) = "eligible"
    /\ WellIsIt(req, 1, IsSegwitAddr(utxo[1].addr), utxo[1].value)

\* The sequence c lists rows best-ranked first by the comparator cmp; no row
\* is listed twice.
RankedBestFirst(cmp, c) ==
    \A i, j \in DOMAIN c : i < j => Compare(cmp, utxo[c[i]], utxo[c[j]]) < 0

\* C28: when findEligibleOutputs has returned through the winner path, the
\* selected list is the list of the winner group's members, best-ranked
\* first by the group's comparator and without repetition, all of the
\* winner's address; the members and totals of the other groups are counted
\* as unused, so that every eligible output visited is either selected or
\* counted as unused.
C28_WinnerGroupSelected ==
    (pc = "author" /\ winner # None)
        => /\ out.credits = haveAmounts[winner].credits
           /\ RankedBestFirst(req.comparator, out.credits)
           /\ Cardinality(Range(out.credits)) = Len(out.credits)
           /\ \A r \in Range(out.credits) : utxo[r].addr = winner
           /\ Range(out.credits) \subseteq EligibleVisited
           /\ out.unusedCount = Cardinality(EligibleVisited) - Len(out.credits)
           /\ out.unusedAmt = SumSet(Value, EligibleVisited) - SumSeq(Value, out.credits)

\* The winner path has returned two outputs of one address, the later one
\* ranked first, and counted the output of another address as unused.
C28_Witness ==
    /\ pc = "author"
    /\ winner # None
    /\ Len(out.credits) = 2
    /\ out.credits[1] > out.credits[2]
    /\ \E a \in DOMAIN haveAmounts \ {winner} : Len(haveAmounts[a].credits) = 1
    /\ out.unusedCount = 1

\* C29: in the cross-address fallback the amount of the combined pool, the
\* value IsEnough is asked about, equals the sum of the values of the
\* outputs in the pool after each group is folded in and after each cap
\* eviction.
C29_PoolRunningTotal ==
    pc = "fold" => TotalOk(outAc)

\* The outputs in the combined pool satisfy IsEnough by their count, the
\* pool's segwit flag and their total value.
PoolEnough ==
    /\ outAc.credits # <<>>
    /\ WellIsIt(req, Len(outAc.credits), outAc.isSegwit, SumSeq(Value, outAc.credits))

\* C30: in the fallback for a request with a target, once the outputs in the
\* combined pool satisfy IsEnough the folding is over: the groups not yet
\* folded are only counted as unused, and none of their members is in the
\* pool.
C30_FoldingStopsWhenEnough ==
    (pc = "fold" /\ ~IsSweeping(req) /\ PoolEnough /\ toFold # {})
        => /\ done
           /\ \A a \in toFold : Range(haveAmounts[a].credits) \cap Range(outAc.credits) = {}

\* The cap of a container that holds the rows S: the override, else 1460 when
\* every row is of a segwit address and 499 otherwise.
CapFor(S) ==
    IF req.maxInputs > 0 THEN req.maxInputs
    ELSE IF \A r \in S : IsSegwitAddr(utxo[r].addr) THEN MaxInputsPerTx
    ELSE MaxInputsPerTxLegacy

\* C31: a sweep in which no group reached its cap during the scan and whose
\* eligible outputs are no more than the cap of the combined pool selects
\* every eligible output of every address and counts nothing as unused.
C31_SweepFoldsEverything ==
    (/\ pc = "author"
     /\ IsSweeping(req)
     /\ winner = None
     /\ \A a \in DOMAIN haveAmounts :
           Len(haveAmounts[a].credits) < CapFor(Range(haveAmounts[a].credits))
     /\ Cardinality(EligibleVisited) <= CapFor(EligibleVisited))
        => /\ Range(out.credits) = EligibleVisited
           /\ out.unusedCount = 0
           /\ out.unusedAmt = 0

\* The highest target among the first i calls.
MaxTargetUpTo(i) ==
    CHOOSE t \in {calls[j].target : j \in 1..i} :
        \A j \in 1..i : calls[j].target <= t

\* C32: every call of the input source returns a prefix of the selected
\* list, with one additional-data entry per input in the same order and the
\* sum of the prefix's values as total; the prefix is the shortest whose
\* total is at least the highest target asked so far, or the whole list, and
\* a later call never returns fewer inputs than an earlier one.
C32_InputSourcePrefix ==
    \A i \in DOMAIN calls :
        LET c == calls[i]
            k == Len(c.inputs)
            m == MaxTargetUpTo(i)
        IN  /\ k <= Len(selected)
            /\ c.inputs = SubSeq(selected, 1, k)
            /\ c.additional = [j \in 1..k |-> [pkScript |-> utxo[selected[j]].addr,
                                              value |-> utxo[selected[j]].value]]
            /\ c.total = SumRange(Value, selected, 1, k)
            /\ c.total >= m \/ k = Len(selected)
            /\ k > 0 => SumRange(Value, selected, 1, k - 1) < m
            /\ i > 1 => Len(calls[i - 1].inputs) <= k

\* A second call has returned more inputs than the first, and not yet the
\* whole list.
C32_Witness ==
    /\ Len(calls) >= 2
    /\ Len(calls[1].inputs) >= 1
    /\ Len(calls[2].inputs) > Len(calls[1].inputs)
    /\ Len(calls[2].inputs) < Len(selected)
    /\ calls[2].total > calls[2].target

\* The positions in the selected list of the outputs whose script resolves
\* to exactly one address.
SingleAddressed == {i \in DOMAIN out.credits : utxo[out.credits[i]].single}

\* The address of the last of them.
LastSingleAddress ==
    utxo[out.credits[CHOOSE i \in SingleAddressed : \A j \in SingleAddressed : j <= i]].addr

RandomizeStep ==
    /\ pc = "randomize"
          => /\ tx # NoTx /\ ~tx.signed /\ ~tx.validated
             /\ pc' \in {"dryrun", "sign"}
             /\ tx'.inputs = tx.inputs /\ ~tx'.signed /\ ~tx'.validated
             /\ tx.changeIndex < 0 => tx' = tx
    /\ (tx.outputs # <<>> /\ tx'.outputs # <<>> /\ tx'.outputs # tx.outputs)
          => (pc = "randomize" /\ tx.changeIndex >= 0)
    /\ (~tx.signed /\ tx'.signed) => pc = "sign"
    /\ (~tx.validated /\ tx'.validated) => pc = "validate"
    /\ pc' = "randomize" => (pc = "author" /\ tx = NoTx /\ tx' # NoTx)

\* C34: the change position is randomized only for a draft with a change
\* output, after the unsigned draft is built and before any input is signed or
\* validated; a draft without a change output keeps its outputs as built, and
\* no other step reorders the outputs.
C34_RandomizeBeforeSigning == [][RandomizeStep]_vars

\* A signed transaction whose change output was moved in front of the payment.
C34_Witness ==
    /\ pc = "validate" /\ tx.signed
    /\ tx.changeIndex = 0 /\ Len(tx.outputs) = 2
    /\ tx.outputs[1].kind = "change"

\* ------------------------------------------------- C35

\* The identifiers of two outputs in order: transaction hash, then index.
IdentifierOrder(a, b) ==
    IF utxo[a].hash < utxo[b].hash THEN -1
    ELSE IF utxo[a].hash > utxo[b].hash THEN 1
    ELSE IF utxo[a].index < utxo[b].index THEN -1
    ELSE IF utxo[a].index > utxo[b].index THEN 1
    ELSE 0

SameIdentifier(a, b) == utxo[a].hash = utxo[b].hash /\ utxo[a].index = utxo[b].index

\* C35: PreferBiggest is a strict total order over outputs with distinct
\* identifiers: the larger value ranks first, equal values rank by
\* identifier, 0 is returned only for one identifier, the order is
\* antisymmetric and transitive; a tree filled with it holds every output
\* put into it exactly once, best first.
C35_PreferBiggestTotalOrder ==
    /\ \A a, b \in Rows :
          LET c == PreferBiggest(utxo[a], utxo[b])
          IN  /\ utxo[a].value > utxo[b].value => c = -1
              /\ utxo[a].value < utxo[b].value => c = 1
              /\ utxo[a].value = utxo[b].value => c = IdentifierOrder(a, b)
              /\ c = 0 => SameIdentifier(a, b)
              /\ c = 0 - PreferBiggest(utxo[b], utxo[a])
    /\ \A a, b, c \in Rows :
          (PreferBiggest(utxo[a], utxo[b]) < 0 /\ PreferBiggest(utxo[b], utxo[c]) < 0)
              => PreferBiggest(utxo[a], utxo[c]) < 0
    /\ {ordered[i] : i \in DOMAIN ordered} = {inserted[i] : i \in DOMAIN inserted}
    /\ \A i, j \in DOMAIN ordered :
          i < j => /\ ~SameIdentifier(ordered[i], ordered[j])
                   /\ PreferBiggest(utxo[ordered[i]], utxo[ordered[j]]) < 0

\* A tree that holds outputs of equal value, one of which was put twice.
C35_Witness ==
    /\ Len(ordered) = NumOutputs
    /\ Len(inserted) > NumOutputs
    /\ \E i, j \in DOMAIN ordered :
          i < j /\ utxo[ordered[i]].value = utxo[ordered[j]].value
    /\ \E i, j \in DOMAIN ordered :
          utxo[ordered[i]].value > utxo[ordered[j]].value

\* ------------------------------------------------- C36

\* C36: when findEligibleOutputs returns without error, every visited output
\* that passed the exclusion rules is either selected or counted as unused,
\* once: the selected outputs are distinct eligible outputs, their number
\* plus unusedCount is the number of eligible outputs visited, and their
\* value plus unusedAmt is the value of the eligible outputs visited.
C36_EligibleConserved ==
    pc = "author"
        => /\ Range(out.credits) \subseteq EligibleVisited
           /\ Cardinality(Range(out.credits)) = Len(out.credits)
           /\ Len(out.credits) + out.unusedCount = Cardinality(EligibleVisited)
           /\ SumSeq(Value, out.credits) + out.unusedAmt = SumSet(Value, EligibleVisited)

\* A return of the cross-address fallback that selected outputs of two
\* addresses and left one out at the cap.
C36_Witness ==
    /\ pc = "author"
    /\ winner = None
    /\ out.unusedCount > 0
    /\ \E i, j \in DOMAIN out.credits : utxo[out.credits[i]].addr # utxo[out.credits[j]].addr

\* ------------------------------------------------- C37

\* No row of the set gone has a value above that of a row of the set kept.
NoneAboveKept(gone, kept) ==
    \A r \in gone, s \in kept : utxo[r].value <= utxo[s].value

EvictionStep ==
    req.comparator = "nil"
        => /\ (/\ pc = "scan" /\ pc' \in {"scan", "delete"}
               /\ Classify(utxo[cursor], cursor, req) = "eligible")
                 => LET a == utxo[cursor].addr
                        before == Range(GroupOf(a).credits) \cup {cursor}
                        after == Range(haveAmounts'[a].credits)
                    IN  /\ after \subseteq before
                        /\ NoneAboveKept(before \ after, after)
                        /\ out'.unusedCount = out.unusedCount + Cardinality(before \ after)
           /\ (pc = "fold" /\ ~done)
                 => \A a \in toFold \ toFold' :
                       LET before == Range(outAc.credits) \cup Range(haveAmounts[a].credits)
                           after == Range(outAc'.credits)
                       IN  /\ after \subseteq before
                           /\ NoneAboveKept(before \ after, after)
                           /\ out'.unusedCount = out.unusedCount
                                                    + Cardinality(before \ after)
           /\ (pc = "author" /\ winner = None /\ ~done)
                 => NoneAboveKept(EligibleVisited \ Range(out.credits), Range(out.credits))

\* C37: with the default comparator every eviction removes a member whose
\* value is no greater than that of any member left in the same container,
\* and when the cross-address fallback has folded every group no eligible
\* output left out of the selected set has a value above the smallest value
\* selected.
C37_EvictsLowestValue == [][EvictionStep]_vars

\* The fallback selected outputs of two addresses and left out an output of
\* a lower value.
C37_Witness ==
    /\ pc = "author" /\ winner = None /\ ~done
    /\ req.comparator = "nil"
    /\ \E i, j \in DOMAIN out.credits : utxo[out.credits[i]].addr # utxo[out.credits[j]].addr
    /\ \E r \in EligibleVisited \ Range(out.credits) :
          \A s \in Range(out.credits) : utxo[r].value < utxo[s].value

\* ------------------------------------------------- C38

\* The scripts a block pays or spends a value of.
TouchedScripts(block) ==
    {block.outs[i].scr : i \in {j \in DOMAIN block.outs : block.outs[j].value > 0}}
        \cup {block.spent[i].scr : i \in {j \in DOMAIN block.spent : block.spent[j].value > 0}}

RECURSIVE ValueOf(_, _, _)
\* The value the first i entries of os hold on the script scr.
ValueOf(os, scr, i) ==
    IF i = 0 THEN 0
    ELSE ValueOf(os, scr, i - 1) + (IF os[i].scr = scr THEN os[i].value ELSE 0)

\* What the block pays to scr less what it spends of scr.
NetOf(block, scr) ==
    ValueOf(block.outs, scr, Len(block.outs)) - ValueOf(block.spent, scr, Len(block.spent))

\* C38: getBlockChanges returns one balance change for each script the
\* block touches, whose Diff is what the block pays to the script less what
\* it spends of it; the changes of two scripts are never merged.
C38_OneChangePerScript ==
    /\ Len(changes.bcs) = Cardinality(TouchedScripts(changes.block))
    /\ {changes.bcs[i].AddressScr : i \in DOMAIN changes.bcs} = TouchedScripts(changes.block)
    /\ \A i \in DOMAIN changes.bcs :
          changes.bcs[i].Diff = NetOf(changes.block, changes.bcs[i].AddressScr)

\* ------------------------------------------------- C39

\* The entry of the list with the highest block number, and an entry of
\* balance 0 when the list is empty.
HighestEntry(balanceInfo) ==
    IF balanceInfo = <<>> THEN [blockNum |-> 0, balance |-> 0]
    ELSE balanceInfo[CHOOSE i \in DOMAIN balanceInfo :
                        \A j \in DOMAIN balanceInfo :
                            balanceInfo[j].blockNum <= balanceInfo[i].blockNum]

\* The entries a change at blockNum removes: at or above blockNum, of the
\* epoch of blockNum, or more than one epoch older.
Removed(bal, blockNum) ==
    \/ bal.blockNum >= blockNum
    \/ epochNum(bal.blockNum) = epochNum(blockNum)
    \/ epochNum(blockNum) - epochNum(bal.blockNum) > 1

\* C39: applyBalanceChange leaves one entry for blockNum, holding the
\* balance of the entry with the highest block number before the call (0
\* when there is none) plus the change; the earlier entries at or above
\* blockNum, of its epoch or more than one epoch older are removed; a sum
\* below zero is an error that leaves the entries as they were.
C39_ApplyBalanceChange ==
    \A i \in DOMAIN applied :
        LET a == applied[i]
            nb == HighestEntry(a.before).balance + a.change
            at == {j \in DOMAIN a.after : a.after[j].blockNum = a.blockNum}
        IN  IF nb < 0
            THEN a.err # None /\ a.after = a.before
            ELSE /\ a.err = None
                 /\ Cardinality(at) = 1
                 /\ \A j \in at : a.after[j].balance = nb
                 /\ {a.after[j] : j \in DOMAIN a.after \ at}
                       = {a.before[j] : j \in {k \in DOMAIN a.before :
                                                  ~Removed(a.before[k], a.blockNum)}}

\* ------------------------------------------------- C40

\* The epochs the list has snapshots of.
EpochsOf(balanceInfo) == {epochNum(balanceInfo[i].blockNum) : i \in DOMAIN balanceInfo}

\* The balance of the snapshot with the highest block number at or below
\* heightLimit, 0 when there is none.
MostRecentUpTo(balanceInfo, heightLimit) ==
    LET at == {i \in DOMAIN balanceInfo : balanceInfo[i].blockNum <= heightLimit}
    IN  IF at = {} THEN 0
        ELSE balanceInfo[CHOOSE i \in at :
                            \A j \in at : balanceInfo[j].blockNum <= balanceInfo[i].blockNum].balance

\* C40: GetBalances for an epoch reports, for every stored script with
\* snapshots in two epochs, the balance of its most recent snapshot at or
\* below the last block of the epoch, and 0 when it has none.
C40_GetBalancesMostRecent ==
    reported # NoReport
        => \A scr \in DOMAIN balances :
              Cardinality(EpochsOf(balances[scr])) = 2
                  => reported.balances[scr]
                        = MostRecentUpTo(balances[scr], epochLastBlock(reported.epoch))

====
